---- MODULE Spec2Model ----
(***************************************************************************)
(* Verification model of the parliamentary-hearing analysis pipeline:      *)
(*   - utils/retry.py     async_retry (retry, backoff, per-attempt timeout) *)
(*   - utils/metrics.py   QualityMetrics / MetricsCollector                 *)
(*   - app.py             process_url, generate_consolidated_analysis, main *)
(***************************************************************************)
EXTENDS Integers, Sequences, FiniteSets, TLC

(***************************************************************************)
(* Bounds of the model.                                                    *)
(***************************************************************************)
\* largest max_retries argument explored for the decorator
MaxRetriesBound == 2
\* largest initial delay explored
MaxDelay == 2
\* largest backoff factor explored
MaxBackoff == 2
\* largest number of valid URLs submitted in one run
MaxUrls == 2
\* largest number of URLs handed to generate_consolidated_analysis directly
MaxGatherUrls == 4
\* longest transcript (in characters) handed to _chunk_transcript
MaxLen == 8
\* largest max_tokens budget handed to _chunk_transcript
MaxTokens == 2
\* longest audio handed to transcribe, in steps of five minutes
MaxDurationSteps == 6
\* largest number of chunks analyze_individual gets from _chunk_transcript
MaxChunks == 3
\* chunk results handed to a merge
MaxMerged == 2
\* entries of a list field of one analysis
MaxItems == 2
\* operations that keep a metrics record in one run
MaxOps == 2
\* ticks of the wall clock
MaxClock == 3
\* files in the metrics directory when a summary is asked for
MaxFiles == 3
\* files in the metrics directory when a purge is asked for
MaxPurged == 3
\* age of a file, and the `days` argument, in days
MaxAge == 1
\* duration of a video, in half hours
MaxHalfHours == 10
\* how far below 0 max_retries is drawn
MaxNegative == 1

VARIABLES
    \* ---- async_retry: decorator arguments (retry.py 17-24)
    max_retries, delay, backoff, exceptions, timeout, on_retry,
    suspends,         \* the decorated coroutine awaits inside its body (download_video
                      \* and convert_to_audio only make blocking calls: it is FALSE)
    \* ---- async_retry.wrapper: one entry per wrapped call in flight
    tasks,            \* the wrapped calls that were launched
    pc,               \* position of each wrapper coroutine
    attempt,          \* loop variable `attempt`
    current_delay,    \* local `current_delay`
    last_exception,   \* local `last_exception`
    outcome,          \* what the wrapper returned or raised
    \* ---- observation of one wrapped call
    invoked,          \* number of times func was invoked
    failures,         \* failure of each failed attempt, in attempt order
    waited,           \* time slept since the last failed attempt
    waits,            \* waits[k]: time slept between attempt k-1 and attempt k
    observed,         \* attempt numbers the on_retry observer was called with
    slept,            \* total time spent in asyncio.sleep
    elapsed,          \* time spent in sleeps and in timed-out attempts
    overran,          \* attempts that ran longer than `timeout` and were not aborted
    saved,            \* metrics records the operation body persisted
    \* ---- app.py: main (one form submission)
    valid_urls,       \* validate_urls(urls): the items of the run
    mainpc,           \* position of main
    loop_url,         \* index in valid_urls the comprehension variable `url` holds
    collect_idx,      \* number of futures whose result main has collected
    results,          \* st.session_state.results
    consolidated,     \* what generate_consolidated_analysis returned
    \* ---- app.py: process_url, one entry per coroutine
    ppc,              \* position of each process_url coroutine
    purl,             \* its `url` argument (0: not yet bound)
    plog,             \* the stage calls it made, each with its outcome
    presult,          \* the dict it returned
    pmetrics,         \* the "process_url" metrics record it persisted
    \* ---- observation of one run
    stage_calls,      \* per item, the number of stage calls made for it
    consolidation_calls, \* analyses handed to each analyze_consolidated call
    \* ---- analysis.py: Analyzer._chunk_transcript (one call)
    transcript,       \* argument `transcript`, a sequence of characters
    max_tokens,       \* argument `max_tokens`
    cpc,              \* position of the call
    sentences,        \* local `sentences`
    sent_idx,         \* index in `sentences` of the loop variable `sentence`
    chunks,           \* local `chunks`
    current_chunk,    \* local `current_chunk`
    current_tokens,   \* local `current_tokens`
    groups,           \* per chunk appended, the indices of the sentences it holds
    \* ---- Transcriber.transcribe / Analyzer.analyze_individual (one call)
    stage_kind,       \* which of the two is called
    audio_exists,     \* audio_path.exists()
    duration,         \* what _get_audio_duration returned
    nchunks,          \* len(chunks) returned by _chunk_transcript
    stage_pc,         \* position of the call
    sub_pc,           \* state of the wrapped sub-call made for each chunk
    stage_result,     \* what the call returned
    windows,          \* transcribe's local `chunks`: the (start, end) windows
    completed,        \* the chunks whose sub-call returned, in completion order
    merged_text,      \* the transcript _combine_chunks built
    stage_metrics,    \* the call's metrics record
    stage_saved,      \* the metrics records the call persisted
    \* ---- the merges: _combine_chunks, _combine_analyses ----
    merge_fn,         \* which merge is called
    merge_in,         \* its argument: the list of chunk results
    merge_pc,         \* position inside the call
    merge_idx,        \* _combine_analyses: index of the loop's current analysis
    combined,         \* _combine_analyses: the local `combined`
    merge_out,        \* how the call ended
    merge_saved,      \* the metrics records the call persisted
    \* ---- the metrics directory ----
    clock,            \* wall-clock time, in ticks of 1 / TicksPerSecond seconds
    metrics_dir,      \* the files of metrics_dir: file name -> content
    ops,              \* the operations of the run: position and QualityMetrics instance
    finalizations,    \* per instance, the number of complete() calls made on it
    save_calls,       \* the number of save_metrics calls made
    \* ---- get_metrics_summary ----
    summary_filter,   \* the `operation` argument: None (<<>>) or a name
    scan_pc,          \* position inside the call
    metrics_files,    \* the files the loop has still to read
    totals,           \* the counters of the scan
    skipped,          \* the files whose reading ended in `except Exception`
    summary,          \* the dict returned
    \* ---- cleanup_old_metrics ----
    days,             \* the `days` argument
    mtimes,           \* st_mtime of the files of metrics_dir
    purge_pc,         \* position inside the call
    cutoff_time,      \* the local `cutoff_time`
    purge_files,      \* the files the loop has still to visit
    purge_raised,     \* the files whose stat() or unlink() raised
    dir_before,       \* metrics_dir as it was when the call began
    \* ---- extract_audio ----
    url_valid,        \* whether extract_video_id finds a video id in the URL
    video_duration,   \* what _get_video_duration returns: None (<<>>) or seconds
    ea_pc,            \* position inside the call
    ea_calls,         \* the download, conversion and probe calls made, in order
    ea_result,        \* the (output_path, error_message) returned
    \* ---- generate_consolidated_analysis ----
    gca_saved,        \* the metrics records generate_consolidated_analysis persisted
    \* ---- analyze_individual and its wrapped calls of _analyze_chunk ----
    ai_pc,            \* position inside analyze_individual
    ai_chunks,        \* how many chunks _chunk_transcript returned
    ai_idx,           \* 0-based index of the chunk the loop is at
    chunk_calls,      \* per chunk whose call ended, in order: attempts made and outcome
    ai_result         \* what analyze_individual returned

pipeVars == <<valid_urls, mainpc, loop_url, collect_idx, results, consolidated,
              ppc, purl, plog, presult, pmetrics, stage_calls, consolidation_calls>>
retryParams == <<max_retries, delay, backoff, exceptions, timeout, on_retry,
                 suspends, tasks>>
retryVars == <<pc, attempt, current_delay, last_exception, outcome, invoked,
               failures, waited, waits, observed, slept, elapsed, overran, saved>>
chunkVars == <<transcript, max_tokens, cpc, sentences, sent_idx, chunks, current_chunk,
               current_tokens, groups>>
stageVars == <<stage_kind, audio_exists, duration, nchunks, stage_pc, sub_pc, stage_result,
               windows, completed, merged_text, stage_metrics, stage_saved>>
mergeVars == <<merge_fn, merge_in, merge_pc, merge_idx, combined, merge_out, merge_saved>>
storeVars == <<clock, metrics_dir, ops, finalizations, save_calls>>
summaryVars == <<summary_filter, scan_pc, metrics_files, totals, skipped, summary>>
purgeVars == <<days, mtimes, purge_pc, cutoff_time, purge_files, purge_raised, dir_before>>
extractVars == <<url_valid, video_duration, ea_pc, ea_calls, ea_result>>
runVars == <<gca_saved>>
seqVars == <<ai_pc, ai_chunks, ai_idx, chunk_calls, ai_result>>
auxVars == <<mergeVars, storeVars, summaryVars, purgeVars, extractVars, runVars, seqVars>>
vars == <<retryParams, retryVars, pipeVars, chunkVars, stageVars, auxVars>>

(***************************************************************************)
(* Values.                                                                 *)
(***************************************************************************)
\* the wrapped calls a specification may launch
Calls == {"c1", "c2"}
\* exception classes an operation may raise: two application classes and
\* asyncio.TimeoutError (raised by the operation itself, e.g. by its HTTP client)
ErrorTypes == {"ErrA", "ErrB", "TimeoutError"}
\* Python's None for last_exception / outcome causes
NoException == [kind |-> "None", type |-> "None"]
\* asyncio.TimeoutError raised by asyncio.wait_for
TimeoutError == [kind |-> "Timeout", type |-> "TimeoutError"]
\* an exception of class t raised by the operation itself
Raised(t) == [kind |-> "Raised", type |-> t]
\* timeout=None is the empty sequence, timeout=t is <<t>>
NoTimeout == <<>>
Pending == [kind |-> "pending", cause |-> NoException, val |-> 0]

RECURSIVE Pow(_, _)
Pow(b, n) == IF n = 0 THEN 1 ELSE b * Pow(b, n - 1)

RECURSIVE SumSeq(_)
SumSeq(s) == IF s = <<>> THEN 0 ELSE Head(s) + SumSeq(Tail(s))

(***************************************************************************)
(* utils/metrics.py: QualityMetrics                                        *)
(***************************************************************************)
\* MetricsCollector.start_operation: a fresh record, retries = 0, not finalized
start_operation(name) ==
    [operation |-> name, success |-> TRUE, retries |-> 0, api_calls |-> 0,
     finalized |-> FALSE]

\* QualityMetrics.add_api_call
add_api_call(m) == [m EXCEPT !.api_calls = @ + 1]

\* QualityMetrics.to_dict: the fields written to the file; end_time is not
\* among them, duration is None (<<>>) until complete() has set it
to_dict(m) ==
    [operation |-> m.operation,
     duration |-> IF m.finalized THEN <<1>> ELSE <<>>,
     success |-> m.success,
     retries |-> m.retries,
     api_calls |-> m.api_calls]

\* QualityMetrics.to_json: text that json.load parses back into the dict
to_json(m) == [parses |-> TRUE, data |-> to_dict(m)]

\* QualityMetrics.complete: sets end_time and the outcome
complete(m, success) == [m EXCEPT !.finalized = TRUE, !.success = success]

\* MetricsCollector.save_metrics 131-132: `if not metrics.end_time:
\* metrics.complete()`
NeedsFinalize_always(m) == TRUE
NeedsFinalize(m) == ~m.finalized

\* the record as save_metrics leaves it before writing it
Finalized(m) == IF NeedsFinalize(m) THEN complete(m, TRUE) ELSE m

\* MetricsCollector.save_metrics: finalizes a record that is not, then persists it
save_metrics(store, m) == Append(store, Finalized(m))

(***************************************************************************)
(* utils/retry.py: async_retry.wrapper                                     *)
(***************************************************************************)
\* `for attempt in range(max_retries + 1)`: the loop body runs for this attempt
InRange_short(a) == a < max_retries
InRange(a) == a <= max_retries

\* `except asyncio.TimeoutError as e`: the first except clause, a test on the class
\* of whatever the await raised
IsTimeoutError(e) == e.type = "TimeoutError"

\* `except exceptions as e`: the raised exception is an instance of the filter
Caught_all(e) == TRUE
Caught(e) == e.type \in exceptions

\* the loop reaches an attempt: func is invoked (awaited, under wait_for if timeout)
BeginAttempt(c) ==
    /\ c \in tasks
    /\ pc[c] = "loop"
    /\ InRange(attempt[c])
    /\ pc' = [pc EXCEPT ![c] = "await"]
    /\ invoked' = [invoked EXCEPT ![c] = @ + 1]
    /\ waits' = [waits EXCEPT ![c] = IF attempt[c] = 0 THEN @ ELSE Append(@, waited[c])]
    /\ waited' = [waited EXCEPT ![c] = 0]
    /\ UNCHANGED <<auxVars, stageVars, chunkVars, pipeVars, retryParams, attempt, current_delay, last_exception, outcome,
                   failures, observed, slept, elapsed, overran, saved>>

\* asyncio.wait_for can cancel the awaited coroutine only where it is suspended:
\* an attempt may run longer than `timeout` only if its body never awaits
MayOverrun(late) == late => (timeout # NoTimeout /\ ~suspends)

\* func returns (late: after more than `timeout`): its body finalizes and saves its
\* metrics, the wrapper returns the value
FuncReturns(c, late) ==
    /\ c \in tasks
    /\ pc[c] = "await"
    /\ MayOverrun(late)
    /\ overran' = [overran EXCEPT ![c] = IF late THEN @ + 1 ELSE @]
    /\ elapsed' = [elapsed EXCEPT ![c] = IF late THEN @ + timeout[1] + 1 ELSE @]
    /\ saved' = [saved EXCEPT ![c] =
                    save_metrics(@, complete(start_operation("analyze_chunk"), TRUE))]
    /\ outcome' = [outcome EXCEPT ![c] =
                    [kind |-> "value", cause |-> NoException, val |-> attempt[c] + 1]]
    /\ pc' = [pc EXCEPT ![c] = "returned"]
    /\ UNCHANGED <<auxVars, stageVars, chunkVars, pipeVars, retryParams, attempt, current_delay, last_exception, invoked,
                   failures, waited, waits, observed, slept>>

\* func raises an exception of class t (late: after more than `timeout`): its body
\* saves failed metrics and re-raises. An asyncio.TimeoutError takes the first
\* except clause (recorded, next iteration at once); an exception inside the filter
\* is retried after on_retry and a sleep, or ends the call with RetryError on the
\* last attempt; any other exception propagates
FuncRaises(c, t, late) ==
    /\ c \in tasks
    /\ pc[c] = "await"
    /\ MayOverrun(late)
    /\ overran' = [overran EXCEPT ![c] = IF late THEN @ + 1 ELSE @]
    /\ elapsed' = [elapsed EXCEPT ![c] = IF late THEN @ + timeout[1] + 1 ELSE @]
    /\ saved' = [saved EXCEPT ![c] =
                    save_metrics(@, complete(start_operation("analyze_chunk"), FALSE))]
    /\ failures' = [failures EXCEPT ![c] = Append(@, Raised(t))]
    /\ IF IsTimeoutError(Raised(t))
       THEN /\ last_exception' = [last_exception EXCEPT ![c] = Raised(t)]
            /\ attempt' = [attempt EXCEPT ![c] = @ + 1]
            /\ pc' = [pc EXCEPT ![c] = "loop"]
            /\ UNCHANGED <<outcome, observed>>
       ELSE IF Caught(Raised(t))
       THEN /\ last_exception' = [last_exception EXCEPT ![c] = Raised(t)]
            /\ IF attempt[c] < max_retries
               THEN /\ observed' = [observed EXCEPT ![c] =
                                      IF on_retry THEN Append(@, attempt[c]) ELSE @]
                    /\ pc' = [pc EXCEPT ![c] = "sleep"]
                    /\ UNCHANGED <<outcome, attempt>>
               ELSE /\ outcome' = [outcome EXCEPT ![c] =
                                      [kind |-> "RetryError", cause |-> Raised(t), val |-> 0]]
                    /\ pc' = [pc EXCEPT ![c] = "raised"]
                    /\ UNCHANGED <<observed, attempt>>
       ELSE /\ outcome' = [outcome EXCEPT ![c] =
                              [kind |-> "propagated", cause |-> Raised(t), val |-> 0]]
            /\ pc' = [pc EXCEPT ![c] = "raised"]
            /\ UNCHANGED <<last_exception, observed, attempt>>
    /\ UNCHANGED <<auxVars, stageVars, chunkVars, pipeVars, retryParams, current_delay, invoked, waited, waits, slept>>

\* asyncio.wait_for cancels the attempt after `timeout`, at a point where the body
\* is suspended: the wrapper records the
\* TimeoutError and goes round the loop at once (no on_retry, no sleep); the
\* cancelled body saves no metrics
AttemptTimeout(c) ==
    /\ c \in tasks
    /\ pc[c] = "await"
    /\ timeout # NoTimeout
    /\ suspends
    /\ failures' = [failures EXCEPT ![c] = Append(@, TimeoutError)]
    /\ last_exception' = [last_exception EXCEPT ![c] = TimeoutError]
    /\ attempt' = [attempt EXCEPT ![c] = @ + 1]
    /\ elapsed' = [elapsed EXCEPT ![c] = @ + timeout[1]]
    /\ pc' = [pc EXCEPT ![c] = "loop"]
    /\ UNCHANGED <<auxVars, stageVars, chunkVars, pipeVars, retryParams, current_delay, outcome, invoked, waited, waits,
                   observed, slept, overran, saved>>

\* `await asyncio.sleep(current_delay); current_delay *= backoff`, then the next
\* iteration of the loop
SleepDone(c) ==
    /\ c \in tasks
    /\ pc[c] = "sleep"
    /\ slept' = [slept EXCEPT ![c] = @ + current_delay[c]]
    /\ elapsed' = [elapsed EXCEPT ![c] = @ + current_delay[c]]
    /\ waited' = [waited EXCEPT ![c] = @ + current_delay[c]]
    /\ current_delay' = [current_delay EXCEPT ![c] = @ * backoff]
    /\ attempt' = [attempt EXCEPT ![c] = @ + 1]
    /\ pc' = [pc EXCEPT ![c] = "loop"]
    /\ UNCHANGED <<auxVars, stageVars, chunkVars, pipeVars, retryParams, last_exception, outcome, invoked, failures, waits,
                   observed, overran, saved>>

\* the loop is over: `if last_exception: raise RetryError(...) from last_exception`,
\* otherwise the function falls off its end and returns None
LoopExhausted(c) ==
    /\ c \in tasks
    /\ pc[c] = "loop"
    /\ ~InRange(attempt[c])
    /\ IF last_exception[c] # NoException
       THEN /\ outcome' = [outcome EXCEPT ![c] =
                             [kind |-> "RetryError", cause |-> last_exception[c], val |-> 0]]
            /\ pc' = [pc EXCEPT ![c] = "raised"]
       ELSE /\ outcome' = [outcome EXCEPT ![c] =
                             [kind |-> "None", cause |-> NoException, val |-> 0]]
            /\ pc' = [pc EXCEPT ![c] = "returned"]
    /\ UNCHANGED <<auxVars, stageVars, chunkVars, pipeVars, retryParams, attempt, current_delay, last_exception, invoked,
                   failures, waited, waits, observed, slept, elapsed, overran, saved>>

(***************************************************************************)
(* app.py: process_url                                                     *)
(***************************************************************************)
\* max_workers of main's ThreadPoolExecutor
MaxWorkers == 3
\* process_url coroutines: "f" run by main's pool futures, "g" by the gather of
\* generate_consolidated_analysis
TaskIds == ({"f"} \X (1..MaxUrls)) \cup ({"g"} \X (1..MaxGatherUrls))
Terminal == {"Completed", "Failed"}
NoResult == [keys |-> {}, transcript |-> 0, analysis |-> 0, error |-> "None"]
\* {"transcript": ..., "analysis": ...} for the item u
OkResult(u) ==
    [keys |-> {"transcript", "analysis"}, transcript |-> u, analysis |-> u, error |-> "None"]
\* {"error": msg}
ErrorResult_partial(msg) ==
    [keys |-> {"error", "transcript"}, transcript |-> 1, analysis |-> 0, error |-> msg]
ErrorResult(msg) == [keys |-> {"error"}, transcript |-> 0, analysis |-> 0, error |-> msg]
NoMetrics == [operation |-> "None", success |-> FALSE, retries |-> 0, api_calls |-> 0,
              finalized |-> FALSE]

\* the last stage call of a coroutine gets its outcome
Settle(log, ok) == [log EXCEPT ![Len(log)].ok = IF ok THEN "ok" ELSE "fail"]
\* a stage call is made
Call(log, stage) == Append(log, [stage |-> stage, ok |-> "pending"])

\* `if error:` after extract_audio (process_url 75)
ExtractFailed_ignored(ok) == FALSE
ExtractFailed(ok) == ~ok
\* `if not transcript:` after transcribe (process_url 82)
TranscribeFailed(ok) == ~ok
\* `if not analysis:` after analyze_individual (process_url 90)
AnalyzeFailed(ok) == ~ok

\* process_url 71-74: the coroutine starts, opens its metrics and calls extract_audio
PU_Begin(t, u) ==
    /\ ppc' = [ppc EXCEPT ![t] = "Extracting"]
    /\ purl' = [purl EXCEPT ![t] = u]
    /\ plog' = [plog EXCEPT ![t] = Call(<<>>, "extract")]
    /\ pmetrics' = [pmetrics EXCEPT ![t] = start_operation("process_url")]
    /\ stage_calls' = [stage_calls EXCEPT ![u] = @ + 1]

\* the coroutine returns {"error": msg}: metrics completed as failed and saved
PU_Fail(t, ok, msg) ==
    /\ ppc' = [ppc EXCEPT ![t] = "Failed"]
    /\ plog' = [plog EXCEPT ![t] = Settle(@, ok)]
    /\ presult' = [presult EXCEPT ![t] = ErrorResult(msg)]
    /\ pmetrics' = [pmetrics EXCEPT ![t] = complete(@, FALSE)]
    /\ UNCHANGED stage_calls

\* the stage succeeded and the coroutine calls the next stage
PU_Advance(t, ok, next, stage) ==
    /\ ppc' = [ppc EXCEPT ![t] = next]
    /\ plog' = [plog EXCEPT ![t] = Call(Settle(@, ok), stage)]
    /\ stage_calls' = [stage_calls EXCEPT ![purl[t]] = @ + 1]
    /\ UNCHANGED <<presult, pmetrics>>

\* process_url 74-81: extract_audio returned (audio_path, error)
PU_ExtractDone(t, ok) ==
    /\ ppc[t] = "Extracting"
    /\ IF ExtractFailed(ok)
       THEN PU_Fail(t, ok, "Erreur lors de l'extraction audio")
       ELSE PU_Advance(t, ok, "Transcribing", "transcribe")
    /\ UNCHANGED <<auxVars, stageVars, chunkVars, retryParams, retryVars, valid_urls, mainpc, loop_url, collect_idx,
                   results, consolidated, purl, consolidation_calls>>

\* process_url 81-89: transcribe returned a transcript or None
PU_TranscribeDone(t, ok) ==
    /\ ppc[t] = "Transcribing"
    /\ IF TranscribeFailed(ok)
       THEN PU_Fail(t, ok, "Echec de la transcription")
       ELSE PU_Advance(t, ok, "Analyzing", "analyze")
    /\ UNCHANGED <<auxVars, stageVars, chunkVars, retryParams, retryVars, valid_urls, mainpc, loop_url, collect_idx,
                   results, consolidated, purl, consolidation_calls>>

\* process_url 89-97: analyze_individual returned an analysis or None; on success
\* the coroutine goes on to audio_extractor.cleanup, which is no stage of the item
PU_AnalyzeDone(t, ok) ==
    /\ ppc[t] = "Analyzing"
    /\ IF AnalyzeFailed(ok)
       THEN PU_Fail(t, ok, "Echec de l'analyse")
       ELSE /\ ppc' = [ppc EXCEPT ![t] = "Cleanup"]
            /\ plog' = [plog EXCEPT ![t] = Settle(@, ok)]
            /\ UNCHANGED <<presult, pmetrics, stage_calls>>
    /\ UNCHANGED <<auxVars, stageVars, chunkVars, retryParams, retryVars, valid_urls, mainpc, loop_url, collect_idx,
                   results, consolidated, purl, consolidation_calls>>

\* process_url 97-110: cleanup returned, the result is returned with the metrics
\* saved; or cleanup raised and `except Exception` turns it into {"error": str(e)}
PU_CleanupDone(t, ok) ==
    /\ ppc[t] = "Cleanup"
    /\ IF ok
       THEN /\ ppc' = [ppc EXCEPT ![t] = "Completed"]
            /\ presult' = [presult EXCEPT ![t] = OkResult(purl[t])]
            /\ pmetrics' = [pmetrics EXCEPT ![t] = complete(@, TRUE)]
       ELSE /\ ppc' = [ppc EXCEPT ![t] = "Failed"]
            /\ presult' = [presult EXCEPT ![t] = ErrorResult("cleanup")]
            /\ pmetrics' = [pmetrics EXCEPT ![t] = complete(@, FALSE)]
    /\ UNCHANGED <<auxVars, stageVars, chunkVars, retryParams, retryVars, valid_urls, mainpc, loop_url, collect_idx,
                   results, consolidated, purl, plog, stage_calls, consolidation_calls>>

(***************************************************************************)
(* app.py: main and generate_consolidated_analysis                         *)
(***************************************************************************)
Started(k, i) == ppc[<<k, i>>] \notin {"idle", "Pending"}
AllTerminal_untilFailure(k) ==
    \/ \A i \in 1..Len(valid_urls) : ppc[<<k, i>>] \in Terminal
    \/ \E i \in 1..Len(valid_urls) : ppc[<<k, i>>] = "Failed"
AllTerminal(k) == \A i \in 1..Len(valid_urls) : ppc[<<k, i>>] \in Terminal

\* main 202-205: the comprehension binds `url` to the next item and submits
\* `lambda: asyncio.run(process_url(url, theme))`; after the last item main
\* enters the loop over the futures
Main_Submit ==
    /\ mainpc = "submit"
    /\ loop_url < Len(valid_urls)
    /\ loop_url' = loop_url + 1
    /\ ppc' = [ppc EXCEPT ![<<"f", loop_url + 1>>] = "Pending"]
    /\ mainpc' = IF loop_url + 1 = Len(valid_urls) THEN "collect" ELSE "submit"
    /\ UNCHANGED <<auxVars, stageVars, chunkVars, retryParams, retryVars, valid_urls, collect_idx, results,
                   consolidated, purl, plog, presult, pmetrics, stage_calls,
                   consolidation_calls>>

\* a pool worker takes the i-th lambda off the queue and runs it: the lambda
\* reads the comprehension variable `url` when it runs, not when it was submitted
Pool_Run(i) ==
    /\ i \in 1..Len(valid_urls)
    /\ ppc[<<"f", i>>] = "Pending"
    /\ \A j \in 1..(i - 1) : Started("f", j)
    /\ Cardinality({j \in 1..Len(valid_urls) :
                      Started("f", j) /\ ppc[<<"f", j>>] \notin Terminal}) < MaxWorkers
    /\ PU_Begin(<<"f", i>>, valid_urls[loop_url])
    /\ UNCHANGED <<auxVars, stageVars, chunkVars, retryParams, retryVars, valid_urls, mainpc, loop_url, collect_idx,
                   results, consolidated, presult, consolidation_calls>>

\* generate_consolidated_analysis 126-127: tasks = [process_url(url, theme) ...]
StartGather ==
    /\ ppc' = [t \in TaskIds |->
                 IF t[1] = "g" /\ t[2] <= Len(valid_urls) THEN "Pending" ELSE ppc[t]]
    /\ purl' = [t \in TaskIds |->
                 IF t[1] = "g" /\ t[2] <= Len(valid_urls) THEN valid_urls[t[2]] ELSE purl[t]]

\* generate_consolidated_analysis called on its own with a list of URLs: it
\* creates one process_url coroutine per URL and gathers them
GCA_Start ==
    /\ mainpc = "call"
    /\ mainpc' = "gather"
    /\ StartGather
    /\ UNCHANGED <<auxVars, stageVars, chunkVars, retryParams, retryVars, valid_urls, loop_url, collect_idx, results,
                   consolidated, plog, presult, pmetrics, stage_calls,
                   consolidation_calls>>

\* main 208-217: future.result() of the next future, appended to the results, then
\* st.experimental_rerun(), which either raises the rerun request (the script
\* stops once the pool has shut down) or returns; after the last future, with
\* more than one URL, main calls generate_consolidated_analysis
Main_Collect(rerun) ==
    /\ mainpc = "collect"
    /\ collect_idx < Len(valid_urls)
    /\ ppc[<<"f", collect_idx + 1>>] \in Terminal
    /\ results' = Append(results, presult[<<"f", collect_idx + 1>>])
    /\ collect_idx' = collect_idx + 1
    /\ IF rerun
       THEN mainpc' = "rerun" /\ UNCHANGED <<ppc, purl>>
       ELSE IF collect_idx + 1 < Len(valid_urls)
            THEN UNCHANGED <<mainpc, ppc, purl>>
            ELSE IF Len(valid_urls) > 1
                 THEN mainpc' = "gather" /\ StartGather
                 ELSE mainpc' = "done" /\ UNCHANGED <<ppc, purl>>
    /\ UNCHANGED <<auxVars, stageVars, chunkVars, retryParams, retryVars, valid_urls, loop_url, consolidated,
                   plog, presult, pmetrics, stage_calls, consolidation_calls>>

\* the rerun request leaves the `with ThreadPoolExecutor` block, which waits for
\* every submitted future, and ends the script run
Main_RerunExit ==
    /\ mainpc = "rerun"
    /\ AllTerminal("f")
    /\ mainpc' = "done"
    /\ UNCHANGED <<auxVars, stageVars, chunkVars, retryParams, retryVars, valid_urls, loop_url, collect_idx, results,
                   consolidated, ppc, purl, plog, presult, pmetrics, stage_calls,
                   consolidation_calls>>

\* asyncio.gather starts the i-th process_url coroutine, with the url it was
\* created with
Gather_Run(i) ==
    /\ mainpc = "gather"
    /\ i \in 1..Len(valid_urls)
    /\ ppc[<<"g", i>>] = "Pending"
    /\ \A j \in 1..(i - 1) : Started("g", j)
    /\ PU_Begin(<<"g", i>>, purl[<<"g", i>>])
    /\ UNCHANGED <<auxVars, stageVars, chunkVars, retryParams, retryVars, valid_urls, mainpc, loop_url, collect_idx,
                   results, consolidated, presult, consolidation_calls>>

\* generate_consolidated_analysis 127-140: the gather is complete; any error
\* returns None, otherwise analyze_consolidated is called with the analyses
GCA_Gathered ==
    /\ mainpc = "gather"
    /\ AllTerminal("g")
    /\ IF \E i \in 1..Len(valid_urls) : "error" \in presult[<<"g", i>>].keys
       THEN /\ mainpc' = "done"
            /\ UNCHANGED consolidation_calls
       ELSE /\ mainpc' = "consolidating"
            /\ consolidation_calls' =
                 Append(consolidation_calls,
                        [i \in 1..Len(valid_urls) |-> presult[<<"g", i>>].analysis])
    /\ UNCHANGED <<auxVars, stageVars, chunkVars, retryParams, retryVars, valid_urls, loop_url, collect_idx, results,
                   consolidated, ppc, purl, plog, presult, pmetrics, stage_calls>>

\* generate_consolidated_analysis 140-150, main 218-219: analyze_consolidated
\* returned a result or None
GCA_ConsolidatedDone(ok) ==
    /\ mainpc = "consolidating"
    /\ consolidated' = IF ok THEN "consolidated" ELSE "None"
    /\ mainpc' = "done"
    /\ UNCHANGED <<auxVars, stageVars, chunkVars, retryParams, retryVars, valid_urls, loop_url, collect_idx, results,
                   ppc, purl, plog, presult, pmetrics, stage_calls, consolidation_calls>>

(***************************************************************************)
(* modules/analysis.py: Analyzer._chunk_transcript                         *)
(***************************************************************************)
\* the characters transcripts are made of: a letter, the full stop, the space
Alphabet == {"a", ".", " "}
\* the sentence separator '. '
Separator == <<".", " ">>
\* the '.' appended to every chunk
FullStop == <<".">>

\* all strings of length at most n
Strings(n) == UNION {[1..k -> Alphabet] : k \in 0..n}

\* str.split('. '): scans left to right, cuts at every non-overlapping
\* occurrence of the separator, keeps empty pieces
RECURSIVE SplitFrom(_, _, _)
SplitFrom(str, i, piece) ==
    IF i > Len(str) THEN <<piece>>
    ELSE IF i < Len(str) /\ SubSeq(str, i, i + 1) = Separator
         THEN <<piece>> \o SplitFrom(str, i + 2, <<>>)
         ELSE SplitFrom(str, i + 1, Append(piece, str[i]))
\* a split that drops the empty pieces, as str.split() without a separator does
Split_dropEmpty(str) == SelectSeq(SplitFrom(str, 1, <<>>), LAMBDA piece : piece # <<>>)
Split(str) == SplitFrom(str, 1, <<>>)

\* sep.join(pieces)
RECURSIVE Join(_, _)
Join(pieces, sep) ==
    IF pieces = <<>> THEN <<>>
    ELSE IF Len(pieces) = 1 THEN pieces[1]
    ELSE pieces[1] \o sep \o Join(Tail(pieces), sep)

\* self.encoding.encode(sentence): the tokens of a sentence, one per character
encode(sentence) == sentence

\* `if current_tokens + sentence_tokens > max_tokens` (line 61)
Exceeds_atBudget(cur, sentence_tokens) == cur + sentence_tokens >= max_tokens
Exceeds(cur, sentence_tokens) == cur + sentence_tokens > max_tokens

\* `if current_chunk:` (lines 62 and 70): the list holds a sentence
HasSentences_never(chunk) == FALSE
HasSentences(chunk) == chunk # <<>>

\* `'. '.join(current_chunk) + '.'`
MakeChunk(chunk) == Join(chunk, Separator) \o FullStop

\* the indices of the sentences held by current_chunk when the loop is at index i
CurrentIndices(i) == [k \in 1..Len(current_chunk) |-> i - Len(current_chunk) + k - 1]

\* line 53-56: the transcript is split into sentences, the accumulators are empty
CT_Split ==
    /\ cpc = "start"
    /\ sentences' = Split(transcript)
    /\ sent_idx' = 1
    /\ cpc' = "loop"
    /\ UNCHANGED <<auxVars, stageVars, retryParams, retryVars, pipeVars, transcript, max_tokens, chunks,
                   current_chunk, current_tokens, groups>>

\* lines 58-68: one iteration of `for sentence in sentences`
CT_Sentence ==
    /\ cpc = "loop"
    /\ sent_idx <= Len(sentences)
    /\ LET sentence == sentences[sent_idx]
           sentence_tokens == Len(encode(sentence))
           flush == Exceeds(current_tokens, sentence_tokens) /\ HasSentences(current_chunk)
       IN  /\ chunks' = IF flush THEN Append(chunks, MakeChunk(current_chunk)) ELSE chunks
           /\ groups' = IF flush THEN Append(groups, CurrentIndices(sent_idx)) ELSE groups
           /\ current_chunk' = Append(IF flush THEN <<>> ELSE current_chunk, sentence)
           /\ current_tokens' = (IF flush THEN 0 ELSE current_tokens) + sentence_tokens
    /\ sent_idx' = sent_idx + 1
    /\ UNCHANGED <<auxVars, stageVars, retryParams, retryVars, pipeVars, transcript, max_tokens, cpc, sentences>>

\* lines 70-78: after the loop the open chunk is appended and the chunks returned
CT_Finish ==
    /\ cpc = "loop"
    /\ sent_idx > Len(sentences)
    /\ chunks' = IF HasSentences(current_chunk)
                 THEN Append(chunks, MakeChunk(current_chunk)) ELSE chunks
    /\ groups' = IF HasSentences(current_chunk)
                 THEN Append(groups, CurrentIndices(sent_idx)) ELSE groups
    /\ cpc' = "done"
    /\ UNCHANGED <<auxVars, stageVars, retryParams, retryVars, pipeVars, transcript, max_tokens, sentences,
                   sent_idx, current_chunk, current_tokens>>

\* locals of a call of _chunk_transcript that has not begun
ChunkLocals ==
    /\ sentences = <<>>
    /\ sent_idx = 0
    /\ chunks = <<>>
    /\ current_chunk = <<>>
    /\ current_tokens = 0
    /\ groups = <<>>

\* _chunk_transcript is not called
ChunkIdle ==
    /\ transcript = <<>>
    /\ max_tokens = 0
    /\ cpc = "idle"
    /\ ChunkLocals

(***************************************************************************)
(* Transcriber.transcribe and Analyzer.analyze_individual: the chunk stages *)
(***************************************************************************)
\* `chunk_size = 600  # 10 minutes in seconds`
chunk_size == 600
\* None, returned by a stage that failed
StageNone == [kind |-> "None", parts |-> <<>>]
StagePending == [kind |-> "pending", parts |-> <<>>]
\* _combine_chunks / _combine_analyses over the results of the chunks `parts`
Combined(parts) == [kind |-> "merged", parts |-> parts]

\* ceil(a / b) for a >= 0, the length of range(0, a, b)
CeilDiv(a, b) == (a + b - 1) \div b
Min(a, b) == IF a <= b THEN a ELSE b

\* `[(i, min(i + chunk_size, duration)) for i in range(0, duration, chunk_size)]`
Windows(secs) ==
    [k \in 1..CeilDiv(secs, chunk_size) |->
        <<(k - 1) * chunk_size, Min(k * chunk_size, secs)>>]

\* asyncio.gather(*tasks) without return_exceptions: the first exception raised
\* by a task is raised to the caller of the gather
GatherRaised_tolerated == FALSE
GatherRaised == \E i \in 1..Len(sub_pc) : sub_pc[i] = "raised"

\* `valid_results = [r for r in results if r is not None]`: the chunks whose
\* sub-call returned a result, in chunk order
RECURSIVE ValidResults(_)
ValidResults(i) ==
    IF i > Len(sub_pc) THEN <<>>
    ELSE (IF sub_pc[i] = "returned" THEN <<i>> ELSE <<>>) \o ValidResults(i + 1)

\* the response of the transcription call for window i: one channel with one
\* alternative, whose transcript is the text of that window
Response(i) == [transcripts |-> <<<<ToString(i)>>>>]

\* the `transcript` list _combine_chunks collects: every transcript of every
\* chunk, in chunk order
RECURSIVE Transcripts(_)
Transcripts(responses) ==
    IF responses = <<>> THEN <<>>
    ELSE Head(responses).transcripts \o Transcripts(Tail(responses))

\* Transcriber._combine_chunks: `' '.join(transcript)`
combine_chunks(responses) == Join(Transcripts(responses), <<" ">>)

\* `results = await asyncio.gather(*tasks)`: the results in task order
GatherResults_asCompleted == completed
GatherResults == ValidResults(1)

\* the metrics are completed with the outcome and saved
SaveStageMetrics(success) ==
    /\ stage_metrics' = complete(stage_metrics, success)
    /\ stage_saved' = save_metrics(stage_saved, complete(stage_metrics, success))

\* transcribe 125-147: the metrics record is started; a missing file or no
\* duration returns None at once; a float duration makes range() raise
\* TypeError, which `except Exception` records and turns into None; otherwise
\* one _transcribe_chunk call per window is gathered
TR_Start ==
    /\ stage_kind = "transcribe"
    /\ stage_pc = "start"
    /\ IF ~audio_exists \/ duration.secs = 0
       THEN /\ stage_pc' = "done"
            /\ stage_result' = StageNone
            /\ stage_metrics' = start_operation("transcribe")
            /\ UNCHANGED <<sub_pc, windows, stage_saved>>
       ELSE IF ~duration.isint
       THEN /\ stage_pc' = "done"
            /\ stage_result' = StageNone
            /\ stage_metrics' = complete(start_operation("transcribe"), FALSE)
            /\ stage_saved' = save_metrics(stage_saved,
                                           complete(start_operation("transcribe"), FALSE))
            /\ UNCHANGED <<sub_pc, windows>>
       ELSE /\ stage_pc' = "gather"
            /\ windows' = Windows(duration.secs)
            /\ sub_pc' = [k \in 1..Len(Windows(duration.secs)) |-> "inflight"]
            /\ stage_metrics' = start_operation("transcribe")
            /\ UNCHANGED <<stage_result, stage_saved>>
    /\ UNCHANGED <<auxVars, retryParams, retryVars, pipeVars, chunkVars, stage_kind, audio_exists,
                   duration, nchunks, completed, merged_text>>

\* a wrapped sub-call (_transcribe_chunk, _analyze_chunk) ends: it returns its
\* result, or raises RetryError once its retries are exhausted
Sub_Ends(i, ok) ==
    /\ i \in 1..Len(sub_pc)
    /\ sub_pc[i] = "inflight"
    /\ sub_pc' = [sub_pc EXCEPT ![i] = IF ok THEN "returned" ELSE "raised"]
    /\ completed' = IF ok THEN Append(completed, i) ELSE completed
    /\ UNCHANGED <<auxVars, retryParams, retryVars, pipeVars, chunkVars, stage_kind, audio_exists,
                   duration, nchunks, stage_pc, stage_result, windows, merged_text,
                   stage_metrics, stage_saved>>

\* transcribe 147-167: the gather raises (`except Exception` records the failure
\* and returns None) or returns all results; no valid result returns None at
\* once, otherwise the results are combined, the metrics saved and the
\* transcript returned
TR_Gathered ==
    /\ stage_kind = "transcribe"
    /\ stage_pc = "gather"
    /\ IF GatherRaised
       THEN /\ stage_result' = StageNone
            /\ SaveStageMetrics(FALSE)
            /\ UNCHANGED merged_text
       ELSE /\ \A i \in 1..Len(sub_pc) : sub_pc[i] \in {"returned", "raised"}
            /\ IF GatherResults = <<>>
               THEN /\ stage_result' = StageNone
                    /\ UNCHANGED <<merged_text, stage_metrics, stage_saved>>
               ELSE /\ stage_result' = Combined(GatherResults)
                    /\ merged_text' =
                         combine_chunks([k \in 1..Len(GatherResults) |->
                                            Response(GatherResults[k])])
                    /\ SaveStageMetrics(TRUE)
    /\ stage_pc' = "done"
    /\ UNCHANGED <<auxVars, retryParams, retryVars, pipeVars, chunkVars, stage_kind, audio_exists,
                   duration, nchunks, sub_pc, windows, completed>>

\* analyze_individual 138-146: the metrics record is started, the transcript is
\* split and the call for the first chunk is awaited
AN_Start ==
    /\ stage_kind = "analyze"
    /\ stage_pc = "start"
    /\ stage_pc' = "loop"
    /\ sub_pc' = [k \in 1..nchunks |-> IF k = 1 THEN "inflight" ELSE "idle"]
    /\ stage_metrics' = start_operation("analyze_individual")
    /\ UNCHANGED <<auxVars, retryParams, retryVars, pipeVars, chunkVars, stage_kind, audio_exists,
                   duration, nchunks, stage_result, windows, completed, merged_text,
                   stage_saved>>

\* analyze_individual 145-162: the awaited call returned, and the next chunk's
\* call is awaited or, after the last, the results are combined, the metrics
\* saved and the result returned; or it raised, and `except Exception` records
\* the failure and returns None
AN_ChunkDone(i) ==
    /\ stage_kind = "analyze"
    /\ stage_pc = "loop"
    /\ i \in 1..Len(sub_pc)
    /\ sub_pc[i] \in {"returned", "raised"}
    /\ \A k \in (i + 1)..Len(sub_pc) : sub_pc[k] = "idle"
    /\ IF sub_pc[i] = "raised"
       THEN /\ stage_result' = StageNone
            /\ stage_pc' = "done"
            /\ SaveStageMetrics(FALSE)
            /\ UNCHANGED sub_pc
       ELSE IF i < Len(sub_pc)
            THEN /\ sub_pc' = [sub_pc EXCEPT ![i + 1] = "inflight"]
                 /\ UNCHANGED <<stage_pc, stage_result, stage_metrics, stage_saved>>
            ELSE /\ stage_result' = Combined(ValidResults(1))
                 /\ stage_pc' = "done"
                 /\ SaveStageMetrics(TRUE)
                 /\ UNCHANGED sub_pc
    /\ UNCHANGED <<auxVars, retryParams, retryVars, pipeVars, chunkVars, stage_kind, audio_exists,
                   duration, nchunks, windows, completed, merged_text>>

\* locals and observations of a stage call that has not begun
StageLocals ==
    /\ sub_pc = <<>>
    /\ stage_result = StagePending
    /\ windows = <<>>
    /\ completed = <<>>
    /\ merged_text = <<>>
    /\ stage_metrics = NoMetrics
    /\ stage_saved = <<>>

\* neither stage function is called
StageIdle ==
    /\ stage_kind = "none"
    /\ audio_exists = FALSE
    /\ duration = [isint |-> FALSE, secs |-> 0]
    /\ nchunks = 0
    /\ stage_pc = "idle"
    /\ StageLocals

(***************************************************************************)
(* modules/transcription.py, modules/analysis.py: the merges                *)
(***************************************************************************)
\* the keys of `combined` read from analyses[0], and the keys extended in the
\* loop, both in the order of the code
ScalarFields == <<"identification", "participants", "structure">>
ListFields == <<"resume", "echanges", "citations", "problematiques", "positionnements",
                "signaux_faibles", "annexes">>
Range(seq) == {seq[k] : k \in 1..Len(seq)}
Fields == Range(ScalarFields) \cup Range(ListFields)

\* the analysis dict of chunk i: one value per scalar key, n entries per list
\* key, the key `missing` absent
Analysis(i, n, missing) ==
    [f \in Fields \ {missing} |->
        IF f \in Range(ScalarFields) THEN <<f, i, 0>>
        ELSE [j \in 1..n |-> <<f, i, j>>]]

\* a chunk result without 'results': it contributes no transcript
NoTranscript == [transcripts |-> <<>>]

\* how a call ended
MergePending == [kind |-> "pending", cause |-> "None", val |-> <<>>]
MergeReturned(val) == [kind |-> "returned", cause |-> "None", val |-> val]
MergeRaised(cause) == [kind |-> "raised", cause |-> cause, val |-> <<>>]

\* `combined[f].extend(analysis[f])`
Extend_prepend(list, items) == items \o list
Extend(list, items) == list \o items

\* the list keys an iteration of the loop extends before it ends: all of them,
\* or those before the first key the analysis lacks
RECURSIVE Extended(_, _)
Extended(analysis, k) ==
    IF k > Len(ListFields) \/ ListFields[k] \notin DOMAIN analysis THEN {}
    ELSE {ListFields[k]} \cup Extended(analysis, k + 1)

\* _combine_chunks 169-189: the transcripts are collected and joined; nothing
\* is raised and no metrics record is kept
CC_Call ==
    /\ merge_fn = "combine_chunks"
    /\ merge_pc = "start"
    /\ merge_pc' = "done"
    /\ merge_out' = MergeReturned(combine_chunks(merge_in))
    /\ UNCHANGED <<retryParams, retryVars, pipeVars, chunkVars, stageVars, runVars, seqVars, storeVars, summaryVars, purgeVars, extractVars,
                   merge_fn, merge_in, merge_idx, combined, merge_saved>>

\* _combine_analyses 174-187 and 203-206: `combined` takes its scalar keys from
\* analyses[0]; IndexError on an empty list and KeyError on a missing key are
\* recorded and raised
CA_Start ==
    /\ merge_fn = "combine_analyses"
    /\ merge_pc = "start"
    /\ IF merge_in = <<>> \/ ~(Range(ScalarFields) \subseteq DOMAIN merge_in[1])
       THEN /\ merge_pc' = "done"
            /\ merge_out' = MergeRaised(IF merge_in = <<>> THEN "IndexError" ELSE "KeyError")
            /\ merge_saved' =
                 save_metrics(merge_saved,
                              complete(start_operation("combine_analyses"), FALSE))
            /\ UNCHANGED <<combined, merge_idx>>
       ELSE /\ merge_pc' = "loop"
            /\ combined' = [f \in Fields |->
                              IF f \in Range(ScalarFields) THEN merge_in[1][f] ELSE <<>>]
            /\ merge_idx' = 1
            /\ UNCHANGED <<merge_out, merge_saved>>
    /\ UNCHANGED <<retryParams, retryVars, pipeVars, chunkVars, stageVars, runVars, seqVars, storeVars, summaryVars, purgeVars, extractVars,
                   merge_fn, merge_in>>

\* _combine_analyses 189-196 and 203-206: one iteration of the loop extends the
\* list keys in order; a key the analysis lacks raises KeyError, which is
\* recorded and raised
CA_Extend ==
    /\ merge_fn = "combine_analyses"
    /\ merge_pc = "loop"
    /\ merge_idx <= Len(merge_in)
    /\ combined' = [f \in Fields |->
                      IF f \in Extended(merge_in[merge_idx], 1)
                      THEN Extend(combined[f], merge_in[merge_idx][f])
                      ELSE combined[f]]
    /\ IF Range(ListFields) \subseteq DOMAIN merge_in[merge_idx]
       THEN /\ merge_idx' = merge_idx + 1
            /\ UNCHANGED <<merge_pc, merge_out, merge_saved>>
       ELSE /\ merge_pc' = "done"
            /\ merge_out' = MergeRaised("KeyError")
            /\ merge_saved' =
                 save_metrics(merge_saved,
                              complete(start_operation("combine_analyses"), FALSE))
            /\ UNCHANGED merge_idx
    /\ UNCHANGED <<retryParams, retryVars, pipeVars, chunkVars, stageVars, runVars, seqVars, storeVars, summaryVars, purgeVars, extractVars,
                   merge_fn, merge_in>>

\* _combine_analyses 198-201: after the loop the metrics are completed and
\* saved and `combined` is returned
CA_Return ==
    /\ merge_fn = "combine_analyses"
    /\ merge_pc = "loop"
    /\ merge_idx > Len(merge_in)
    /\ merge_pc' = "done"
    /\ merge_out' = MergeReturned(combined)
    /\ merge_saved' =
         save_metrics(merge_saved, complete(start_operation("combine_analyses"), TRUE))
    /\ UNCHANGED <<retryParams, retryVars, pipeVars, chunkVars, stageVars, runVars, seqVars, storeVars, summaryVars, purgeVars, extractVars,
                   merge_fn, merge_in, merge_idx, combined>>

\* locals of a merge that has not begun
MergeLocals ==
    /\ merge_idx = 0
    /\ combined = <<>>
    /\ merge_out = MergePending
    /\ merge_saved = <<>>

\* no merge is called
MergeIdle ==
    /\ merge_fn = "none"
    /\ merge_in = <<>>
    /\ merge_pc = "idle"
    /\ MergeLocals

(***************************************************************************)
(* utils/metrics.py: MetricsCollector.save_metrics and the metrics files    *)
(***************************************************************************)
\* the clock ticks twice a second; the file name keeps whole seconds only
TicksPerSecond == 2

\* operation names, as the parts "_" separates
OperationNames == {<<"transcribe">>, <<"transcribe", "chunk">>}

\* `time.strftime("%Y%m%d_%H%M%S")`: the time to the second
strftime(now) == ToString(now \div TicksPerSecond)

\* `f"{metrics.operation}_{timestamp}.json"`, as the parts of its stem
filename(operation, timestamp) == operation \o <<timestamp>>

\* `open(filepath, "w")` and write: the file is created or its content replaced
write_file(dir, name, content) ==
    [f \in DOMAIN dir \cup {name} |-> IF f = name THEN content ELSE dir[f]]

EmptyDir == [f \in {} |-> to_json(NoMetrics)]

\* an operation that has not begun
NoOp == [pc |-> "idle", m |-> NoMetrics]

\* `metrics = self.metrics_collector.start_operation(name)` at the head of an
\* operation
Op_Start(i, name) ==
    /\ i \in DOMAIN ops
    /\ ops[i].pc = "idle"
    /\ ops' = [ops EXCEPT ![i] = [pc |-> "running", m |-> start_operation(name)]]
    /\ UNCHANGED <<retryParams, retryVars, pipeVars, chunkVars, stageVars, runVars, seqVars, mergeVars, summaryVars, purgeVars, extractVars,
                   clock, metrics_dir, finalizations, save_calls>>

\* the instance an operation holds when it saves it: on the way out of the try
\* block `metrics.add_api_call()` (_transcribe_chunk) and `metrics.complete()`,
\* in `except Exception` `metrics.complete(success=False, ...)`
Completed(m, success) ==
    IF success
    THEN complete(IF m.operation = <<"transcribe", "chunk">> THEN add_api_call(m) ELSE m, TRUE)
    ELSE complete(m, FALSE)

\* the tail of an operation, `metrics.complete(...)` followed at once by
\* `save_metrics(metrics)`. save_metrics finalizes a record that is not, and
\* writes it under the operation's name and the current second
Op_Finish(i, success) ==
    /\ i \in DOMAIN ops
    /\ ops[i].pc = "running"
    /\ ops' = [ops EXCEPT ![i] = [pc |-> "saved",
                                   m |-> Finalized(Completed(ops[i].m, success))]]
    /\ finalizations' =
         [finalizations EXCEPT ![i] =
             @ + 1 + (IF NeedsFinalize(Completed(ops[i].m, success)) THEN 1 ELSE 0)]
    /\ metrics_dir' = write_file(metrics_dir, filename(ops[i].m.operation, strftime(clock)),
                                 to_json(Finalized(Completed(ops[i].m, success))))
    /\ save_calls' = save_calls + 1
    /\ UNCHANGED <<retryParams, retryVars, pipeVars, chunkVars, stageVars, runVars, seqVars, mergeVars, summaryVars, purgeVars, extractVars, clock>>

\* an operation ends without completing or saving its record: transcribe's
\* early returns (transcription.py 126-128, 133-134, 151-152), or an attempt
\* cancelled by its timeout
Op_Abandon(i) ==
    /\ i \in DOMAIN ops
    /\ ops[i].pc = "running"
    /\ ops' = [ops EXCEPT ![i].pc = "returned"]
    /\ UNCHANGED <<retryParams, retryVars, pipeVars, chunkVars, stageVars, runVars, seqVars, mergeVars, summaryVars, purgeVars, extractVars,
                   clock, metrics_dir, finalizations, save_calls>>

\* time passes
Tick ==
    /\ clock < MaxClock
    /\ clock' = clock + 1
    /\ UNCHANGED <<retryParams, retryVars, pipeVars, chunkVars, stageVars, runVars, seqVars, mergeVars, summaryVars, purgeVars, extractVars,
                   metrics_dir, ops, finalizations, save_calls>>

\* no operation keeps a metrics record
StoreIdle ==
    /\ clock = 0
    /\ metrics_dir = EmptyDir
    /\ ops = <<>>
    /\ finalizations = <<>>
    /\ save_calls = 0

(***************************************************************************)
(* utils/metrics.py: MetricsCollector.get_metrics_summary                  *)
(***************************************************************************)
\* `f.stem.startswith(operation)`, on names as sequences of parts
startswith(stem, prefix) ==
    /\ Len(prefix) <= Len(stem)
    /\ SubSeq(stem, 1, Len(prefix)) = prefix

\* `metrics_files = self.metrics_dir.glob("*.json")`, filtered `if operation:`
Glob(dir, operation) ==
    IF operation = <<>> THEN DOMAIN dir
    ELSE {f \in DOMAIN dir : startswith(f, operation)}

\* `metrics.get(key, default)`
Get(data, key, default) == IF key \in DOMAIN data THEN data[key] ELSE default

\* `if metrics["success"]:`
CountsAsSuccess_always(data) == TRUE
CountsAsSuccess(data) == data.success

\* the counters before the first file
ZeroTotals ==
    [total_operations |-> 0, successful_operations |-> 0, total_duration |-> 0,
     total_retries |-> 0, total_api_calls |-> 0, total_api_tokens |-> 0]

\* the body of the try block for one file, statement by statement: the counters
\* as the statements executed before an exception leave them, and whether an
\* exception was raised. json.load raises on text that is not JSON,
\* metrics["success"] raises KeyError when the key is absent, and adding the
\* None of a null duration raises TypeError
ReadFile(t, content) ==
    IF ~content.parses THEN [totals |-> t, raised |-> TRUE]
    ELSE LET d == content.data
             t1 == [t EXCEPT !.total_operations = @ + 1]
         IN  IF "success" \notin DOMAIN d THEN [totals |-> t1, raised |-> TRUE]
             ELSE LET t2 == IF CountsAsSuccess(d)
                            THEN [t1 EXCEPT !.successful_operations = @ + 1]
                            ELSE t1
                  IN  IF Get(d, "duration", <<0>>) = <<>>
                      THEN [totals |-> t2, raised |-> TRUE]
                      ELSE [totals |->
                               [t2 EXCEPT
                                  !.total_duration = @ + Get(d, "duration", <<0>>)[1],
                                  !.total_retries = @ + Get(d, "retries", 0),
                                  !.total_api_calls = @ + Get(d, "api_calls", 0),
                                  !.total_api_tokens = @ + Get(d, "api_tokens", 0)],
                            raised |-> FALSE]

\* a / b, kept as the fraction; the integer 0 is 0 / 1
Div(a, b) == [num |-> a, den |-> b]
Average(sum, n) == IF n > 0 THEN Div(sum, n) ELSE Div(0, 1)

NoSummary == [total_operations |-> 0 - 1]

\* get_metrics_summary 155-164: the files are listed and filtered and the
\* counters set to 0
GS_Start ==
    /\ scan_pc = "start"
    /\ scan_pc' = "loop"
    /\ metrics_files' = Glob(metrics_dir, summary_filter)
    /\ totals' = ZeroTotals
    /\ UNCHANGED <<retryParams, retryVars, pipeVars, chunkVars, stageVars, runVars, seqVars, mergeVars,
                   extractVars, purgeVars, storeVars, summary_filter, skipped, summary>>

\* get_metrics_summary 166-180: one iteration of the loop reads a file; an
\* exception is logged and the loop goes on (glob yields the files in no
\* particular order)
GS_File(file) ==
    /\ scan_pc = "loop"
    /\ file \in metrics_files
    /\ metrics_files' = metrics_files \ {file}
    /\ totals' = ReadFile(totals, metrics_dir[file]).totals
    /\ skipped' = IF ReadFile(totals, metrics_dir[file]).raised
                  THEN skipped \cup {file} ELSE skipped
    /\ UNCHANGED <<retryParams, retryVars, pipeVars, chunkVars, stageVars, runVars, seqVars, mergeVars,
                   extractVars, purgeVars, storeVars, summary_filter, scan_pc, summary>>

\* get_metrics_summary 182-189: the summary is built from the counters
GS_Return ==
    /\ scan_pc = "loop"
    /\ metrics_files = {}
    /\ scan_pc' = "done"
    /\ summary' =
         [total_operations |-> totals.total_operations,
          success_rate |-> Average(totals.successful_operations, totals.total_operations),
          average_duration |-> Average(totals.total_duration, totals.total_operations),
          average_retries |-> Average(totals.total_retries, totals.total_operations),
          total_api_calls |-> totals.total_api_calls,
          total_api_tokens |-> totals.total_api_tokens]
    /\ UNCHANGED <<retryParams, retryVars, pipeVars, chunkVars, stageVars, runVars, seqVars, mergeVars,
                   extractVars, purgeVars, storeVars, summary_filter, metrics_files, totals, skipped>>

\* locals of a summary that has not begun
SummaryLocals ==
    /\ metrics_files = {}
    /\ totals = ZeroTotals
    /\ skipped = {}
    /\ summary = NoSummary

\* no summary is asked for
SummaryIdle ==
    /\ summary_filter = <<>>
    /\ scan_pc = "idle"
    /\ SummaryLocals

\* the contents a metrics file can have: what save_metrics writes for an
\* operation that succeeded or failed, text that is not JSON, a JSON object
\* without "success", and the dump of a record whose duration is null
Stamps == {"0", "1"}
FileNames == {filename(op, t) : op \in OperationNames, t \in Stamps}
Operation(file) == SubSeq(file, 1, Len(file) - 1)
Written(op, success) == to_json(Finalized(Completed(start_operation(op), success)))
Unparsable == [parses |-> FALSE, data |-> <<>>]
NoSuccessKey(op) ==
    [parses |-> TRUE,
     data |-> [operation |-> op, duration |-> <<1>>, retries |-> 0, api_calls |-> 0]]
NullDuration(op) == to_json(start_operation(op))
WellFormed(file) == {Written(Operation(file), success) : success \in BOOLEAN}
Contents(file) ==
    WellFormed(file) \cup {Unparsable, NoSuccessKey(Operation(file)),
                           NullDuration(Operation(file))}

(***************************************************************************)
(* utils/metrics.py: MetricsCollector.cleanup_old_metrics                  *)
(***************************************************************************)
\* `days * 24 * 60 * 60`
DaySeconds == 24 * 60 * 60

\* time.time() when the purge is called
Now == (MaxAge + 1) * DaySeconds

\* `file.stat().st_mtime < cutoff_time`
IsOld_orEqual(mtime, cutoff) == mtime <= cutoff
IsOld(mtime, cutoff) == mtime < cutoff

\* `file.unlink()`
unlink(dir, file) == [f \in DOMAIN dir \ {file} |-> dir[f]]

\* cleanup_old_metrics 199-201: the cutoff is computed and the files listed
CL_Start ==
    /\ purge_pc = "start"
    /\ purge_pc' = "loop"
    /\ cutoff_time' = Now - days * DaySeconds
    /\ purge_files' = DOMAIN metrics_dir
    /\ UNCHANGED <<retryParams, retryVars, pipeVars, chunkVars, stageVars, runVars, seqVars, mergeVars,
                   extractVars, storeVars, summaryVars, days, mtimes, purge_raised, dir_before>>

\* cleanup_old_metrics 201-207: one iteration of the loop; a file older than
\* the cutoff is deleted; stat() or unlink() raising is logged and the loop
\* goes on (glob yields the files in no particular order)
CL_File(file, raises) ==
    /\ purge_pc = "loop"
    /\ file \in purge_files
    /\ purge_files' = purge_files \ {file}
    /\ IF raises
       THEN /\ purge_raised' = purge_raised \cup {file}
            /\ UNCHANGED metrics_dir
       ELSE /\ metrics_dir' = IF IsOld(mtimes[file], cutoff_time)
                              THEN unlink(metrics_dir, file) ELSE metrics_dir
            /\ UNCHANGED purge_raised
    /\ UNCHANGED <<retryParams, retryVars, pipeVars, chunkVars, stageVars, runVars, seqVars, mergeVars,
                   extractVars, summaryVars, clock, ops, finalizations, save_calls,
                   days, mtimes, purge_pc, cutoff_time, dir_before>>

\* cleanup_old_metrics: the loop is over and the call returns
CL_Return ==
    /\ purge_pc = "loop"
    /\ purge_files = {}
    /\ purge_pc' = "done"
    /\ UNCHANGED <<retryParams, retryVars, pipeVars, chunkVars, stageVars, runVars, seqVars, mergeVars,
                   extractVars, storeVars, summaryVars, days, mtimes, cutoff_time, purge_files,
                   purge_raised, dir_before>>

\* locals of a purge that has not begun
PurgeLocals ==
    /\ cutoff_time = 0
    /\ purge_files = {}
    /\ purge_raised = {}

\* no purge is asked for
PurgeIdle ==
    /\ days = 0
    /\ mtimes = <<>>
    /\ purge_pc = "idle"
    /\ dir_before = <<>>
    /\ PurgeLocals

(***************************************************************************)
(* modules/audio.py: AudioExtractor.extract_audio                          *)
(***************************************************************************)
\* audio.py 26: `MAX_AUDIO_DURATION = 3600 * 4`, the limit extract_audio uses
MAX_AUDIO_DURATION == 3600 * 4

\* config.py: `int(os.getenv("MAX_AUDIO_DURATION", 7200))`, the configured
\* limit, which audio.py does not import
CONFIG_MAX_AUDIO_DURATION == 7200

\* `duration > MAX_AUDIO_DURATION`
TooLong(seconds) == seconds > MAX_AUDIO_DURATION

EA_Pending == [path |-> "pending", error |-> "pending"]
EA_Error(message) == [path |-> "None", error |-> message]
EA_Ok == [path |-> "audio_path", error |-> "None"]

\* extract_audio 211-225: the URL and the duration are checked, each failed
\* check returning (None, message); then download_video is awaited
EA_Check ==
    /\ ea_pc = "start"
    /\ IF ~url_valid
       THEN /\ ea_result' = EA_Error("URL YouTube invalide")
            /\ ea_pc' = "done"
            /\ UNCHANGED ea_calls
       ELSE IF video_duration = <<>>
       THEN /\ ea_result' = EA_Error("Impossible d'obtenir la duree de la video")
            /\ ea_pc' = "done"
            /\ UNCHANGED ea_calls
       ELSE IF TooLong(video_duration[1])
       THEN /\ ea_result' = EA_Error("La video depasse la duree maximale")
            /\ ea_pc' = "done"
            /\ UNCHANGED ea_calls
       ELSE /\ ea_pc' = "download_video"
            /\ ea_calls' = Append(ea_calls, "download_video")
            /\ UNCHANGED ea_result
    /\ UNCHANGED <<retryParams, retryVars, pipeVars, chunkVars, stageVars, runVars, seqVars, mergeVars,
                   storeVars, summaryVars, purgeVars, url_valid, video_duration>>

\* extract_audio 223-240: an awaited call returns and the next one is awaited,
\* the last one being followed by the removal of the video file and the return
\* of (audio_path, None); or it raises, and `except Exception` returns
\* (None, message)
EA_CallEnds(ok) ==
    /\ ea_pc \in {"download_video", "convert_to_audio", "get_duration"}
    /\ IF ~ok
       THEN /\ ea_result' = EA_Error("Erreur lors de l'extraction audio")
            /\ ea_pc' = "done"
            /\ UNCHANGED ea_calls
       ELSE IF ea_pc = "get_duration"
       THEN /\ ea_result' = EA_Ok
            /\ ea_pc' = "done"
            /\ UNCHANGED ea_calls
       ELSE /\ ea_pc' = (IF ea_pc = "download_video" THEN "convert_to_audio"
                         ELSE "get_duration")
            /\ ea_calls' = Append(ea_calls, IF ea_pc = "download_video"
                                            THEN "convert_to_audio" ELSE "get_duration")
            /\ UNCHANGED ea_result
    /\ UNCHANGED <<retryParams, retryVars, pipeVars, chunkVars, stageVars, runVars, seqVars, mergeVars,
                   storeVars, summaryVars, purgeVars, url_valid, video_duration>>

\* locals of an extraction that has not begun
ExtractLocals ==
    /\ ea_calls = <<>>
    /\ ea_result = EA_Pending

\* extract_audio is not called
ExtractIdle ==
    /\ url_valid = FALSE
    /\ video_duration = <<>>
    /\ ea_pc = "idle"
    /\ ExtractLocals

(***************************************************************************)
(* modules/analysis.py: Analyzer.analyze_consolidated under async_retry,    *)
(* called by app.py: generate_consolidated_analysis                        *)
(***************************************************************************)
\* the wrapped call of analyze_consolidated
Consolidation == "c1"

\* async_retry.wrapper: the loop reaches an attempt of analyze_consolidated
AC_Begin ==
    /\ mainpc = "consolidating"
    /\ BeginAttempt(Consolidation)

\* analyze_consolidated 220-262: the body ends. The completion call returned:
\* the metrics are saved as a success and the result is returned; or it (or
\* the parsing of its answer) raised: `except Exception` saves the metrics as
\* a failure and returns None. Either way the wrapper returns what the body
\* returned
AC_BodyEnds(api_ok) ==
    /\ mainpc = "consolidating"
    /\ pc[Consolidation] = "await"
    /\ saved' = [saved EXCEPT ![Consolidation] =
                    save_metrics(@, complete(start_operation("analyze_consolidated"), api_ok))]
    /\ outcome' = [outcome EXCEPT ![Consolidation] =
                    IF api_ok
                    THEN [kind |-> "value", cause |-> NoException,
                          val |-> attempt[Consolidation] + 1]
                    ELSE [kind |-> "None", cause |-> NoException, val |-> 0]]
    /\ pc' = [pc EXCEPT ![Consolidation] = "returned"]
    /\ UNCHANGED <<auxVars, stageVars, chunkVars, pipeVars, retryParams, attempt,
                   current_delay, last_exception, invoked, failures, waited, waits,
                   observed, slept, elapsed, overran>>

\* asyncio.wait_for cancels the attempt, suspended in the completion call
AC_Timeout ==
    /\ mainpc = "consolidating"
    /\ AttemptTimeout(Consolidation)

\* async_retry.wrapper: the loop is over
AC_Exhausted ==
    /\ mainpc = "consolidating"
    /\ LoopExhausted(Consolidation)

\* generate_consolidated_analysis 140-150, main 217-219: analyze_consolidated
\* returned, and the metrics are completed as a success, saved, and what it
\* returned is returned; or it raised RetryError, and `except Exception` saves
\* the metrics as a failure and returns None. main keeps what is returned
\* `if consolidated:`
GCA_Return ==
    /\ mainpc = "consolidating"
    /\ pc[Consolidation] \in {"returned", "raised"}
    /\ gca_saved' =
         save_metrics(gca_saved,
                      complete(start_operation("generate_consolidated_analysis"),
                               pc[Consolidation] = "returned"))
    /\ consolidated' = IF pc[Consolidation] = "returned"
                          /\ outcome[Consolidation].kind = "value"
                       THEN "consolidated" ELSE "None"
    /\ mainpc' = "done"
    /\ UNCHANGED <<mergeVars, storeVars, summaryVars, purgeVars, extractVars, seqVars, stageVars,
                   chunkVars, retryParams, retryVars, valid_urls, loop_url, collect_idx,
                   results, ppc, purl, plog, presult, pmetrics, stage_calls,
                   consolidation_calls>>

\* generate_consolidated_analysis is not called
RunIdle == gca_saved = <<>>

(***************************************************************************)
(* modules/analysis.py: analyze_individual and its wrapped calls            *)
(***************************************************************************)
\* the one wrapped call in flight: `await self._analyze_chunk(chunk, theme)`
ChunkCall == "c1"

\* `result = await self._analyze_chunk(chunk, theme)` in the loop, which has no
\* try of its own: the loop goes on only when the awaited call returned
Proceeds_always(c) == TRUE
Proceeds(c) == pc[c] = "returned"

\* a call of the decorated function begins: the locals of a fresh wrapper
FreshWrapper(c) ==
    /\ pc' = [pc EXCEPT ![c] = "loop"]
    /\ attempt' = [attempt EXCEPT ![c] = 0]
    /\ current_delay' = [current_delay EXCEPT ![c] = delay]
    /\ last_exception' = [last_exception EXCEPT ![c] = NoException]
    /\ outcome' = [outcome EXCEPT ![c] = Pending]
    /\ invoked' = [invoked EXCEPT ![c] = 0]
    /\ failures' = [failures EXCEPT ![c] = <<>>]
    /\ waited' = [waited EXCEPT ![c] = 0]
    /\ waits' = [waits EXCEPT ![c] = <<>>]
    /\ observed' = [observed EXCEPT ![c] = <<>>]
    /\ slept' = [slept EXCEPT ![c] = 0]
    /\ elapsed' = [elapsed EXCEPT ![c] = 0]
    /\ overran' = [overran EXCEPT ![c] = 0]
    /\ saved' = [saved EXCEPT ![c] = <<>>]

\* lines 138-146: the record is started, the transcript is split, and the loop
\* awaits the call for the first chunk
AI_Start ==
    /\ ai_pc = "start"
    /\ ai_pc' = "loop"
    /\ ai_idx' = 0
    /\ UNCHANGED <<retryParams, retryVars, pipeVars, chunkVars, stageVars, mergeVars,
                   storeVars, summaryVars, purgeVars, extractVars, runVars, ai_chunks,
                   chunk_calls, ai_result>>

\* a step of the wrapper around _analyze_chunk while the loop awaits it
AI_Wrapper ==
    /\ ai_pc = "loop"
    /\ \/ BeginAttempt(ChunkCall)
       \/ \E late \in BOOLEAN : FuncReturns(ChunkCall, late)
       \/ \E t \in ErrorTypes, late \in BOOLEAN : FuncRaises(ChunkCall, t, late)
       \/ AttemptTimeout(ChunkCall)
       \/ SleepDone(ChunkCall)
       \/ LoopExhausted(ChunkCall)

\* lines 145-162: the awaited call ended. If it returned, the loop goes to the
\* next chunk, or after the last chunk the results are combined and returned; if
\* it raised, `except Exception` returns None
AI_ChunkEnds ==
    /\ ai_pc = "loop"
    /\ pc[ChunkCall] \in {"returned", "raised"}
    /\ chunk_calls' = Append(chunk_calls, [attempts |-> invoked[ChunkCall],
                                           ok |-> pc[ChunkCall] = "returned"])
    /\ IF Proceeds(ChunkCall)
       THEN IF ai_idx + 1 < ai_chunks
            THEN /\ ai_idx' = ai_idx + 1
                 /\ FreshWrapper(ChunkCall)
                 /\ UNCHANGED <<ai_pc, ai_result>>
            ELSE /\ ai_pc' = "done"
                 /\ ai_result' = "value"
                 /\ UNCHANGED <<ai_idx, retryVars>>
       ELSE /\ ai_pc' = "done"
            /\ ai_result' = "None"
            /\ UNCHANGED <<ai_idx, retryVars>>
    /\ UNCHANGED <<retryParams, pipeVars, chunkVars, stageVars, mergeVars, storeVars,
                   summaryVars, purgeVars, extractVars, runVars, ai_chunks>>

\* analyze_individual is not called
SeqIdle ==
    /\ ai_pc = "idle"
    /\ ai_chunks = 0
    /\ ai_idx = 0
    /\ chunk_calls = <<>>
    /\ ai_result = "pending"

\* the parts of the program a run does not exercise
AuxIdle == MergeIdle /\ StoreIdle /\ SummaryIdle /\ PurgeIdle /\ ExtractIdle /\ RunIdle /\ SeqIdle

\* no form was submitted: the pipeline variables at rest
PipeIdle ==
    /\ valid_urls = <<>>
    /\ mainpc = "done"
    /\ loop_url = 0
    /\ collect_idx = 0
    /\ results = <<>>
    /\ consolidated = "None"
    /\ ppc = [t \in TaskIds |-> "idle"]
    /\ purl = [t \in TaskIds |-> 0]
    /\ plog = [t \in TaskIds |-> <<>>]
    /\ presult = [t \in TaskIds |-> NoResult]
    /\ pmetrics = [t \in TaskIds |-> NoMetrics]
    /\ stage_calls = [u \in 1..MaxGatherUrls |-> 0]
    /\ consolidation_calls = <<>>

RetryInitLocals ==
    /\ pc = [c \in Calls |-> "loop"]
    /\ attempt = [c \in Calls |-> 0]
    /\ current_delay = [c \in Calls |-> delay]
    /\ last_exception = [c \in Calls |-> NoException]
    /\ outcome = [c \in Calls |-> Pending]
    /\ invoked = [c \in Calls |-> 0]
    /\ failures = [c \in Calls |-> <<>>]
    /\ waited = [c \in Calls |-> 0]
    /\ waits = [c \in Calls |-> <<>>]
    /\ observed = [c \in Calls |-> <<>>]
    /\ slept = [c \in Calls |-> 0]
    /\ elapsed = [c \in Calls |-> 0]
    /\ overran = [c \in Calls |-> 0]
    /\ saved = [c \in Calls |-> <<>>]

\* one wrapped call, any decorator arguments within the bounds
Init ==
    /\ max_retries \in 0..MaxRetriesBound
    /\ delay \in 1..MaxDelay
    /\ backoff \in 1..MaxBackoff
    /\ exceptions \in (SUBSET ErrorTypes) \ {{}}
    /\ timeout \in {NoTimeout, <<3>>}
    /\ on_retry \in BOOLEAN
    /\ suspends \in BOOLEAN
    /\ tasks = {"c1"}
    /\ RetryInitLocals
    /\ PipeIdle
    /\ ChunkIdle
    /\ StageIdle
    /\ AuxIdle

RetryNext ==
    \E c \in Calls :
        \/ BeginAttempt(c)
        \/ \E late \in BOOLEAN : FuncReturns(c, late)
        \/ \E t \in ErrorTypes, late \in BOOLEAN : FuncRaises(c, t, late)
        \/ AttemptTimeout(c)
        \/ SleepDone(c)
        \/ LoopExhausted(c)

Next == RetryNext

Spec == Init /\ [][Next]_vars

\* the chunk fan-out of Transcriber.transcribe: two sibling calls of
\* _transcribe_chunk, decorated @async_retry(max_retries=3, delay=1, backoff=2,
\* timeout=300), default exceptions=Exception and on_retry=None
InitGather ==
    /\ max_retries = 3
    /\ delay = 1
    /\ backoff = 2
    /\ exceptions = ErrorTypes
    /\ timeout = <<300>>
    /\ on_retry = FALSE
    /\ suspends = TRUE
    /\ tasks = {"c1", "c2"}
    /\ RetryInitLocals
    /\ PipeIdle
    /\ ChunkIdle
    /\ StageIdle
    /\ AuxIdle

SpecGather == InitGather /\ [][Next]_vars

\* one submission of the form with 1..MaxUrls valid URLs (item i is URL i); no
\* wrapped call is observed
InitPipeline ==
    /\ max_retries = 3
    /\ delay = 1
    /\ backoff = 2
    /\ exceptions = ErrorTypes
    /\ timeout = <<300>>
    /\ on_retry = FALSE
    /\ suspends = TRUE
    /\ tasks = {}
    /\ RetryInitLocals
    /\ valid_urls \in {[i \in 1..n |-> i] : n \in 1..MaxUrls}
    /\ mainpc = "submit"
    /\ loop_url = 0
    /\ collect_idx = 0
    /\ results = <<>>
    /\ consolidated = "None"
    /\ ppc = [t \in TaskIds |-> "idle"]
    /\ purl = [t \in TaskIds |-> 0]
    /\ plog = [t \in TaskIds |-> <<>>]
    /\ presult = [t \in TaskIds |-> NoResult]
    /\ pmetrics = [t \in TaskIds |-> NoMetrics]
    /\ stage_calls = [u \in 1..MaxGatherUrls |-> 0]
    /\ consolidation_calls = <<>>
    /\ ChunkIdle
    /\ StageIdle
    /\ AuxIdle

PipelineNext ==
    \/ Main_Submit
    \/ \E i \in 1..MaxUrls : Pool_Run(i)
    \/ \E rerun \in BOOLEAN : Main_Collect(rerun)
    \/ Main_RerunExit
    \/ \E i \in 1..MaxGatherUrls : Gather_Run(i)
    \/ GCA_Gathered
    \/ \E ok \in BOOLEAN : GCA_ConsolidatedDone(ok)
    \/ \E t \in TaskIds, ok \in BOOLEAN :
            \/ PU_ExtractDone(t, ok)
            \/ PU_TranscribeDone(t, ok)
            \/ PU_AnalyzeDone(t, ok)
            \/ PU_CleanupDone(t, ok)

SpecPipeline == InitPipeline /\ [][PipelineNext]_vars

\* one call of generate_consolidated_analysis(urls, theme) with 1..MaxGatherUrls
\* URLs, outside main
InitConsolidate ==
    /\ max_retries = 3
    /\ delay = 1
    /\ backoff = 2
    /\ exceptions = ErrorTypes
    /\ timeout = <<300>>
    /\ on_retry = FALSE
    /\ suspends = TRUE
    /\ tasks = {}
    /\ RetryInitLocals
    /\ valid_urls \in {[i \in 1..n |-> i] : n \in 1..MaxGatherUrls}
    /\ mainpc = "call"
    /\ loop_url = 0
    /\ collect_idx = 0
    /\ results = <<>>
    /\ consolidated = "None"
    /\ ppc = [t \in TaskIds |-> "idle"]
    /\ purl = [t \in TaskIds |-> 0]
    /\ plog = [t \in TaskIds |-> <<>>]
    /\ presult = [t \in TaskIds |-> NoResult]
    /\ pmetrics = [t \in TaskIds |-> NoMetrics]
    /\ stage_calls = [u \in 1..MaxGatherUrls |-> 0]
    /\ consolidation_calls = <<>>
    /\ ChunkIdle
    /\ StageIdle
    /\ AuxIdle

ConsolidateNext ==
    \/ GCA_Start
    \/ \E i \in 1..MaxGatherUrls : Gather_Run(i)
    \/ GCA_Gathered
    \/ \E ok \in BOOLEAN : GCA_ConsolidatedDone(ok)
    \/ \E t \in TaskIds, ok \in BOOLEAN :
            \/ PU_ExtractDone(t, ok)
            \/ PU_TranscribeDone(t, ok)
            \/ PU_AnalyzeDone(t, ok)
            \/ PU_CleanupDone(t, ok)

SpecConsolidate == InitConsolidate /\ [][ConsolidateNext]_vars

\* one call of _chunk_transcript(transcript, max_tokens) on any transcript of at
\* most MaxLen characters and any budget up to MaxTokens
InitChunk ==
    /\ max_retries = 3
    /\ delay = 1
    /\ backoff = 2
    /\ exceptions = ErrorTypes
    /\ timeout = <<300>>
    /\ on_retry = FALSE
    /\ suspends = TRUE
    /\ tasks = {}
    /\ RetryInitLocals
    /\ PipeIdle
    /\ transcript \in Strings(MaxLen)
    /\ max_tokens \in 1..MaxTokens
    /\ cpc = "start"
    /\ ChunkLocals
    /\ StageIdle
    /\ AuxIdle

ChunkNext == CT_Split \/ CT_Sentence \/ CT_Finish

SpecChunk == InitChunk /\ [][ChunkNext]_vars

\* one call of transcribe(audio_path), the duration being the float ffprobe
\* reports or an integer number of seconds, or one call of
\* analyze_individual(transcript, theme) on a transcript of 1..MaxChunks chunks
InitStage ==
    /\ max_retries = 3
    /\ delay = 1
    /\ backoff = 2
    /\ exceptions = ErrorTypes
    /\ timeout = <<300>>
    /\ on_retry = FALSE
    /\ suspends = TRUE
    /\ tasks = {}
    /\ RetryInitLocals
    /\ PipeIdle
    /\ ChunkIdle
    /\ stage_kind \in {"transcribe", "analyze"}
    /\ IF stage_kind = "transcribe"
       THEN /\ audio_exists \in BOOLEAN
            /\ duration \in [isint : BOOLEAN, secs : {k * 300 : k \in 0..MaxDurationSteps}]
            /\ nchunks = 0
       ELSE /\ audio_exists = FALSE
            /\ duration = [isint |-> FALSE, secs |-> 0]
            /\ nchunks \in 1..MaxChunks
    /\ stage_pc = "start"
    /\ StageLocals
    /\ AuxIdle

StageNext ==
    \/ TR_Start
    \/ TR_Gathered
    \/ AN_Start
    \/ \E i \in 1..Len(sub_pc) : AN_ChunkDone(i)
    \/ \E i \in 1..Len(sub_pc), ok \in BOOLEAN : Sub_Ends(i, ok)

SpecStage == InitStage /\ [][StageNext]_vars

\* a merge is called on up to MaxMerged chunk results: transcription results
\* with or without a transcript, or analyses with up to MaxItems entries per
\* list key, each complete or lacking one key
InitMerge ==
    /\ max_retries = 3
    /\ delay = 1
    /\ backoff = 2
    /\ exceptions = ErrorTypes
    /\ timeout = <<300>>
    /\ on_retry = FALSE
    /\ suspends = TRUE
    /\ tasks = {}
    /\ RetryInitLocals
    /\ PipeIdle
    /\ ChunkIdle
    /\ StageIdle
    /\ merge_fn \in {"combine_chunks", "combine_analyses"}
    /\ \E n \in 0..MaxMerged :
         IF merge_fn = "combine_chunks"
         THEN \E has \in [1..n -> BOOLEAN] :
                 merge_in = [i \in 1..n |-> IF has[i] THEN Response(i) ELSE NoTranscript]
         ELSE \E items \in [1..n -> 0..MaxItems], missing \in [1..n -> {"none"} \cup Fields] :
                 merge_in = [i \in 1..n |-> Analysis(i, items[i], missing[i])]
    /\ merge_pc = "start"
    /\ MergeLocals
    /\ StoreIdle
    /\ SummaryIdle
    /\ PurgeIdle
    /\ ExtractIdle
    /\ RunIdle
    /\ SeqIdle

MergeNext ==
    \/ CC_Call
    \/ CA_Start
    \/ CA_Extend
    \/ CA_Return

SpecMerge == InitMerge /\ [][MergeNext]_vars

\* a run of up to MaxOps operations that keep a metrics record, over an empty
\* metrics directory
InitStore ==
    /\ max_retries = 3
    /\ delay = 1
    /\ backoff = 2
    /\ exceptions = ErrorTypes
    /\ timeout = <<300>>
    /\ on_retry = FALSE
    /\ suspends = TRUE
    /\ tasks = {}
    /\ RetryInitLocals
    /\ PipeIdle
    /\ ChunkIdle
    /\ StageIdle
    /\ MergeIdle
    /\ clock = 0
    /\ metrics_dir = EmptyDir
    /\ ops = [i \in 1..MaxOps |-> NoOp]
    /\ finalizations = [i \in 1..MaxOps |-> 0]
    /\ save_calls = 0
    /\ SummaryIdle
    /\ PurgeIdle
    /\ ExtractIdle
    /\ RunIdle
    /\ SeqIdle

StoreNext ==
    \/ \E i \in DOMAIN ops, name \in OperationNames : Op_Start(i, name)
    \/ \E i \in DOMAIN ops, success \in BOOLEAN : Op_Finish(i, success)
    \/ \E i \in DOMAIN ops : Op_Abandon(i)
    \/ Tick

SpecStore == InitStore /\ [][StoreNext]_vars

\* a summary is asked for, with or without a filter, over a metrics directory
\* of up to MaxFiles files
InitSummary ==
    /\ max_retries = 3
    /\ delay = 1
    /\ backoff = 2
    /\ exceptions = ErrorTypes
    /\ timeout = <<300>>
    /\ on_retry = FALSE
    /\ suspends = TRUE
    /\ tasks = {}
    /\ RetryInitLocals
    /\ PipeIdle
    /\ ChunkIdle
    /\ StageIdle
    /\ MergeIdle
    /\ clock = 0
    /\ \E names \in SUBSET FileNames :
         /\ Cardinality(names) <= MaxFiles
         /\ metrics_dir \in [names -> UNION {Contents(f) : f \in names}]
         /\ \A f \in names : metrics_dir[f] \in Contents(f)
    /\ ops = <<>>
    /\ finalizations = <<>>
    /\ save_calls = 0
    /\ summary_filter \in {<<>>} \cup OperationNames
    /\ scan_pc = "start"
    /\ SummaryLocals
    /\ PurgeIdle
    /\ ExtractIdle
    /\ RunIdle
    /\ SeqIdle

SummaryNext ==
    \/ GS_Start
    \/ \E file \in metrics_files : GS_File(file)
    \/ GS_Return

SpecSummary == InitSummary /\ [][SummaryNext]_vars

\* a purge is asked for with `days` in 0..MaxAge over a metrics directory of up
\* to MaxPurged records, each written a whole number of days ago, or one
\* second earlier
InitPurge ==
    /\ max_retries = 3
    /\ delay = 1
    /\ backoff = 2
    /\ exceptions = ErrorTypes
    /\ timeout = <<300>>
    /\ on_retry = FALSE
    /\ suspends = TRUE
    /\ tasks = {}
    /\ RetryInitLocals
    /\ PipeIdle
    /\ ChunkIdle
    /\ StageIdle
    /\ MergeIdle
    /\ SummaryIdle
    /\ clock = 0
    /\ ops = <<>>
    /\ finalizations = <<>>
    /\ save_calls = 0
    /\ \E names \in SUBSET FileNames :
         /\ Cardinality(names) <= MaxPurged
         /\ metrics_dir = [f \in names |-> Written(Operation(f), TRUE)]
         /\ mtimes \in [names -> {Now - a * DaySeconds - e : a \in 0..MaxAge, e \in 0..1}]
    /\ dir_before = metrics_dir
    /\ days \in 0..MaxAge
    /\ purge_pc = "start"
    /\ PurgeLocals
    /\ ExtractIdle
    /\ RunIdle
    /\ SeqIdle

PurgeNext ==
    \/ CL_Start
    \/ \E file \in purge_files, raises \in BOOLEAN : CL_File(file, raises)
    \/ CL_Return

SpecPurge == InitPurge /\ [][PurgeNext]_vars

\* extract_audio is called on a URL, valid or not, of a video whose duration
\* cannot be read or is within a second of a multiple of half an hour
InitExtract ==
    /\ max_retries = 3
    /\ delay = 1
    /\ backoff = 2
    /\ exceptions = ErrorTypes
    /\ timeout = <<300>>
    /\ on_retry = FALSE
    /\ suspends = TRUE
    /\ tasks = {}
    /\ RetryInitLocals
    /\ PipeIdle
    /\ ChunkIdle
    /\ StageIdle
    /\ MergeIdle
    /\ StoreIdle
    /\ SummaryIdle
    /\ PurgeIdle
    /\ url_valid \in BOOLEAN
    /\ video_duration \in {<<>>} \cup {<<k * 1800 + e>> : k \in 0..MaxHalfHours, e \in 0..1}
    /\ ea_pc = "start"
    /\ ExtractLocals
    /\ RunIdle
    /\ SeqIdle

ExtractNext ==
    \/ EA_Check
    \/ \E ok \in BOOLEAN : EA_CallEnds(ok)

SpecExtract == InitExtract /\ [][ExtractNext]_vars

\* a run of main over up to MaxUrls URLs, with the attempts of the
\* consolidation call
InitRun ==
    /\ max_retries = 3
    /\ delay = 1
    /\ backoff = 2
    /\ exceptions = ErrorTypes
    /\ timeout = <<300>>
    /\ on_retry = FALSE
    /\ suspends = TRUE
    /\ tasks = {Consolidation}
    /\ RetryInitLocals
    /\ valid_urls \in {[i \in 1..n |-> i] : n \in 1..MaxUrls}
    /\ mainpc = "submit"
    /\ loop_url = 0
    /\ collect_idx = 0
    /\ results = <<>>
    /\ consolidated = "None"
    /\ ppc = [t \in TaskIds |-> "idle"]
    /\ purl = [t \in TaskIds |-> 0]
    /\ plog = [t \in TaskIds |-> <<>>]
    /\ presult = [t \in TaskIds |-> NoResult]
    /\ pmetrics = [t \in TaskIds |-> NoMetrics]
    /\ stage_calls = [u \in 1..MaxGatherUrls |-> 0]
    /\ consolidation_calls = <<>>
    /\ ChunkIdle
    /\ StageIdle
    /\ AuxIdle

RunNext ==
    \/ Main_Submit
    \/ \E i \in 1..MaxUrls : Pool_Run(i)
    \/ \E rerun \in BOOLEAN : Main_Collect(rerun)
    \/ Main_RerunExit
    \/ \E i \in 1..MaxGatherUrls : Gather_Run(i)
    \/ GCA_Gathered
    \/ AC_Begin
    \/ \E api_ok \in BOOLEAN : AC_BodyEnds(api_ok)
    \/ AC_Timeout
    \/ AC_Exhausted
    \/ GCA_Return
    \/ \E t \in TaskIds, ok \in BOOLEAN :
            \/ PU_ExtractDone(t, ok)
            \/ PU_TranscribeDone(t, ok)
            \/ PU_AnalyzeDone(t, ok)
            \/ PU_CleanupDone(t, ok)

SpecRun == InitRun /\ [][RunNext]_vars

\* one call of analyze_individual on a transcript of 1..MaxChunks chunks, with
\* the decorator's parameters of _analyze_chunk (line 85)
InitSeq ==
    /\ max_retries = 3
    /\ delay = 1
    /\ backoff = 2
    /\ exceptions = ErrorTypes
    /\ timeout = <<300>>
    /\ on_retry = FALSE
    /\ suspends = TRUE
    /\ tasks = {ChunkCall}
    /\ RetryInitLocals
    /\ PipeIdle
    /\ ChunkIdle
    /\ StageIdle
    /\ MergeIdle
    /\ StoreIdle
    /\ SummaryIdle
    /\ PurgeIdle
    /\ ExtractIdle
    /\ RunIdle
    /\ ai_pc = "start"
    /\ ai_chunks \in 1..MaxChunks
    /\ ai_idx = 0
    /\ chunk_calls = <<>>
    /\ ai_result = "pending"

SeqNext ==
    \/ AI_Start
    \/ AI_Wrapper
    \/ AI_ChunkEnds

SpecSeq == InitSeq /\ [][SeqNext]_vars

\* one wrapped call, with max_retries drawn from the negative values too
InitAnyRetries ==
    /\ max_retries \in (0 - MaxNegative)..MaxRetriesBound
    /\ delay \in 1..MaxDelay
    /\ backoff \in 1..MaxBackoff
    /\ exceptions \in (SUBSET ErrorTypes) \ {{}}
    /\ timeout \in {NoTimeout, <<3>>}
    /\ on_retry \in BOOLEAN
    /\ suspends \in BOOLEAN
    /\ tasks = {"c1"}
    /\ RetryInitLocals
    /\ PipeIdle
    /\ ChunkIdle
    /\ StageIdle
    /\ AuxIdle

SpecAnyRetries == InitAnyRetries /\ [][RetryNext]_vars

(***************************************************************************)
(* Properties of async_retry.wrapper                                       *)
(***************************************************************************)
Last(s) == s[Len(s)]
Finished(c) == pc[c] \in {"returned", "raised"}
\* a failure the wrapper retries: an asyncio.TimeoutError or a class inside the filter
RetryableFailure(f) == f.type = "TimeoutError" \/ f.type \in exceptions
\* delay + delay*backoff + ... + delay*backoff^(n-1)
RECURSIVE BackoffSum(_)
BackoffSum(n) == IF n <= 0 THEN 0 ELSE BackoffSum(n - 1) + delay * Pow(backoff, n - 1)

\* C1: an operation that fails on every attempt with a retryable failure is
\* invoked exactly max_retries + 1 times and the wrapper then raises RetryError
\* caused by the last attempt's failure; no call ever makes more than
\* max_retries + 1 attempts.
C1_ExhaustedAfterAllAttempts ==
    \A c \in tasks :
        /\ invoked[c] <= max_retries + 1
        /\ ( /\ Finished(c)
             /\ outcome[c].kind # "value"
             /\ \A i \in 1..Len(failures[c]) : RetryableFailure(failures[c][i]) )
           => /\ invoked[c] = max_retries + 1
              /\ Len(failures[c]) = max_retries + 1
              /\ pc[c] = "raised"
              /\ outcome[c].kind = "RetryError"
              /\ outcome[c].cause = Last(failures[c])

\* C1 witness: a call exhausted by a mix of raised errors and a final timeout
C1_Witness ==
    \E c \in tasks :
        /\ pc[c] = "raised" /\ outcome[c].kind = "RetryError"
        /\ max_retries >= 2 /\ invoked[c] = max_retries + 1
        /\ Last(failures[c]) = TimeoutError
        /\ failures[c][1].kind = "Raised" /\ failures[c][1].type # "TimeoutError"

\* C2: a call that fails k < max_retries times and then succeeds returns the
\* successful attempt's value, and the retries recorded in the metrics the
\* operation persisted equal k.
C2_RecordedRetriesEqualFailures ==
    \A c \in tasks :
        (pc[c] = "returned" /\ outcome[c].kind = "value" /\ Len(failures[c]) < max_retries)
        => /\ outcome[c].val = invoked[c]
           /\ Last(saved[c]).retries = Len(failures[c])

\* C3: the wait between attempt k and attempt k+1 is delay * backoff^k, after a
\* raised error and after a timeout alike.
C3_BackoffWaitBetweenAttempts ==
    \A c \in tasks :
        \A k \in 1..Len(waits[c]) : waits[c][k] = delay * Pow(backoff, k - 1)

C5_OverlongAttemptAborted ==
    \A c \in tasks :
        /\ timeout # NoTimeout => overran[c] = 0
        /\ (Finished(c) /\ outcome[c].kind # "value"
                /\ \E i \in 1..Len(failures[c]) : failures[c][i] = TimeoutError)
           => (outcome[c].kind \in {"RetryError", "propagated"}
               /\ (outcome[c].kind = "RetryError" => invoked[c] = max_retries + 1))

\* The part of C5 that holds wherever a timeout does fire (sibling chunk calls
\* of Transcriber.transcribe): the step that times an attempt out leaves the
\* wrapper in its loop with the next attempt number, ends the call only when no
\* attempt is left, and changes nothing of any sibling call.
TimeoutAbortsOnlyAttempt ==
    /\ [](\A c \in tasks :
            (Finished(c) /\ outcome[c].kind # "value"
                /\ \E i \in 1..Len(failures[c]) : failures[c][i] = TimeoutError)
            => (outcome[c].kind = "RetryError" /\ invoked[c] = max_retries + 1))
    /\ [][\A c \in tasks :
            (Len(failures'[c]) = Len(failures[c]) + 1 /\ Last(failures'[c]) = TimeoutError)
            => /\ pc'[c] = "loop"
               /\ attempt'[c] = attempt[c] + 1
               /\ outcome'[c] = Pending
               /\ \A s \in tasks \ {c} :
                    /\ pc'[s] = pc[s]
                    /\ outcome'[s] = outcome[s]
                    /\ attempt'[s] = attempt[s]
                    /\ invoked'[s] = invoked[s]]_vars

\* c1 timed out and was attempted again while its sibling c2 ran on and
\* returned its value
TimeoutSiblingWitness ==
    /\ tasks = {"c1", "c2"}
    /\ Len(failures["c1"]) >= 1 /\ failures["c1"][1] = TimeoutError
    /\ invoked["c1"] >= 2
    /\ pc["c2"] = "returned" /\ outcome["c2"].kind = "value"

\* C6: with an observer given, on_retry has been called once for every failed
\* attempt (raised error or timeout, the last attempt included) by the time the
\* wrapper sleeps or moves on.
C6_ObserverOncePerFailedAttempt ==
    on_retry =>
        \A c \in tasks :
            Len(observed[c]) =
                Cardinality({i \in 1..Len(failures[c]) : RetryableFailure(failures[c][i])})

\* C7: with a deadline given (`timeout`, documented as the global timeout), the
\* time one wrapped call has consumed never exceeds it.
C7_DeadlineBoundsElapsed ==
    \A c \in tasks : timeout # NoTimeout => elapsed[c] <= timeout[1]

\* C8: when the wrapper raises RetryError after every attempt failed, it has
\* slept at least delay * (backoff^max_retries - 1) / (backoff - 1) in total.
C8_ExhaustionWaitLowerBound ==
    \A c \in tasks :
        (pc[c] = "raised" /\ outcome[c].kind = "RetryError")
        => slept[c] >= BackoffSum(max_retries)

(***************************************************************************)
(* Properties of process_url and main                                      *)
(***************************************************************************)
StageOrder == <<"extract", "transcribe", "analyze">>

\* C9: every process_url coroutine calls the stages in the order extract,
\* transcribe, analyze, each only after the one before it succeeded; it is
\* Completed only after the analysis succeeded, and a failed stage makes it
\* Failed with no later stage called.
C9_StagesInOrder ==
    \A t \in TaskIds :
        /\ Len(plog[t]) <= Len(StageOrder)
        /\ \A i \in 1..Len(plog[t]) :
            /\ plog[t][i].stage = StageOrder[i]
            /\ i < Len(plog[t]) => plog[t][i].ok = "ok"
            /\ plog[t][i].ok = "fail" => (ppc[t] = "Failed" /\ "error" \in presult[t].keys)
            /\ plog[t][i].ok = "pending" =>
                 ppc[t] = <<"Extracting", "Transcribing", "Analyzing">>[i]
        /\ ppc[t] = "Completed" =>
             (Len(plog[t]) = Len(StageOrder) /\ plog[t][Len(StageOrder)].ok = "ok")

\* C9 witness: one item failed in transcription, after its extraction succeeded,
\* while another completed all three stages
C9_Witness ==
    \E t, t2 \in TaskIds :
        /\ ppc[t] = "Failed" /\ Len(plog[t]) = 2 /\ plog[t][2].ok = "fail"
        /\ ppc[t2] = "Completed"

\* C10: once a process_url coroutine of an item is Completed or Failed, no
\* further stage call is made for that item in the run.
C10_NoStageCallAfterTerminal ==
    [][\A u \in 1..MaxGatherUrls :
         (\E t \in TaskIds : purl[t] = u /\ ppc[t] \in Terminal)
         => stage_calls'[u] = stage_calls[u]]_vars

\* the analyses of all items of the run, in item order (the analysis of an item
\* is identified by the item's URL)
AnalysesInItemOrder == [i \in 1..Len(valid_urls) |-> valid_urls[i]]
\* process_url coroutines that have started and not yet returned
InFlight == {t \in TaskIds : ppc[t] \in {"Extracting", "Transcribing", "Analyzing", "Cleanup"}}

\* C11: in a run with more than one item in which every item reached Completed,
\* exactly one consolidation call is made, over the analyses of all items in
\* item order; and a consolidation call is made only after every item is
\* terminal.
C11_OneConsolidationOverAll ==
    /\ (mainpc = "done" /\ Len(valid_urls) > 1
            /\ \A i \in 1..Len(valid_urls) : ppc[<<"f", i>>] = "Completed")
        => /\ Len(consolidation_calls) = 1
           /\ consolidation_calls[1] = AnalysesInItemOrder
    /\ consolidation_calls # <<>> => \A t \in TaskIds : ppc[t] \in Terminal \cup {"idle"}

\* C12: if any item of the run reached Failed, no consolidation call is made in
\* the run, and when the run is over the result of every item that reached
\* Completed is among the results returned, at the item's position.
C12_FailedItemSkipsConsolidation ==
    /\ (\E t \in TaskIds : ppc[t] = "Failed") => consolidation_calls = <<>>
    /\ mainpc = "done" =>
          \A i \in 1..Len(valid_urls) :
              ppc[<<"f", i>>] = "Completed"
              => (i <= Len(results) /\ results[i] = presult[<<"f", i>>])

\* C14: process_url always returns, whatever the stages' outcomes: a coroutine
\* has a result exactly when it is terminal; a Completed one carries transcript
\* and analysis and no error, a Failed one carries an error message and nothing
\* else; and every stage outcome of a running coroutine leads it on.
C14_ResultOrErrorNeverBoth ==
    \A t \in TaskIds :
        /\ (ppc[t] \in Terminal) <=> (presult[t] # NoResult)
        /\ ppc[t] = "Completed" =>
              (presult[t].keys = {"transcript", "analysis"} /\ presult[t].error = "None")
        /\ ppc[t] = "Failed" =>
              (presult[t].keys = {"error"} /\ presult[t].error # "None")
        /\ ppc[t] \in Terminal =>
              ({"transcript", "analysis"} \subseteq presult[t].keys)
                  # ("error" \in presult[t].keys)
        /\ t \in InFlight =>
              \A ok \in BOOLEAN :
                  ENABLED (\/ PU_ExtractDone(t, ok) \/ PU_TranscribeDone(t, ok)
                           \/ PU_AnalyzeDone(t, ok) \/ PU_CleanupDone(t, ok))

\* C14 witness: in one run, a coroutine returned an error after its analysis
\* stage failed, another returned an error because cleanup raised, and a third
\* returned transcript and analysis
C14_Witness ==
    \E t, t2, t3 \in TaskIds :
        /\ ppc[t] = "Failed" /\ Len(plog[t]) = 3 /\ plog[t][3].ok = "fail"
        /\ ppc[t2] = "Failed" /\ presult[t2].error = "cleanup"
        /\ ppc[t3] = "Completed"

\* C15: a failing item leaves its siblings alone. The step in which a coroutine
\* becomes Failed changes no other coroutine; a running coroutine can always
\* take its next step, with either outcome, whatever its siblings did; a
\* Completed coroutine's result depends on its own URL only; and neither the
\* pool nor the gather is left before every coroutine it started is terminal.
C15_FailureIsolation ==
    /\ [](\A s \in TaskIds :
            /\ ppc[s] = "Completed" => presult[s] = OkResult(purl[s])
            /\ s \in InFlight =>
                  \A ok \in BOOLEAN :
                      ENABLED (\/ PU_ExtractDone(s, ok) \/ PU_TranscribeDone(s, ok)
                               \/ PU_AnalyzeDone(s, ok) \/ PU_CleanupDone(s, ok))
            /\ mainpc \in {"done", "consolidating"} => ppc[s] \in Terminal \cup {"idle"})
    /\ [][\A t \in TaskIds :
            (ppc[t] # "Failed" /\ ppc'[t] = "Failed")
            => \A s \in TaskIds \ {t} :
                 /\ ppc'[s] = ppc[s]
                 /\ purl'[s] = purl[s]
                 /\ plog'[s] = plog[s]
                 /\ presult'[s] = presult[s]]_vars

\* C15 witness: the first item of the gather failed in extraction before its
\* sibling had started, and the sibling went on to complete
C15_Witness ==
    /\ ppc[<<"g", 1>>] = "Failed" /\ Len(plog[<<"g", 1>>]) = 1
    /\ ppc[<<"g", 2>>] = "Completed"
    /\ mainpc = "done"

\* C16: the fan-out of main returns one outcome per item, and the outcome at
\* position i is the outcome of processing item i: the i-th future processes
\* valid_urls[i], and when the run is over the results hold one entry per item.
C16_OutcomeAtPositionOfItem ==
    /\ \A i \in 1..Len(valid_urls) :
          Started("f", i) => purl[<<"f", i>>] = valid_urls[i]
    /\ mainpc = "done" => Len(results) = Len(valid_urls)

\* C17: never more than max_workers (3) process_url operations are in flight.
C17_InFlightWithinLimit == Cardinality(InFlight) <= MaxWorkers

(***************************************************************************)
(* Properties of Analyzer._chunk_transcript                                *)
(***************************************************************************)
\* the measured size of a sentence
Tokens(sentence) == Len(encode(sentence))
\* the running size of the sentences with the indices g
GroupTokens(g) == SumSeq([k \in 1..Len(g) |-> Tokens(sentences[g[k]])])
\* the sentences with the indices g
GroupSentences(g) == [k \in 1..Len(g) |-> sentences[g[k]]]

\* C18: re-joining the returned chunks with the separator gives back the
\* transcript, and a transcript that fits in the budget is returned as one
\* chunk equal to it.
C18_SplitRoundTrip ==
    cpc = "done" =>
        /\ Join(chunks, Separator) = transcript
        /\ Len(encode(transcript)) <= max_tokens => chunks = <<transcript>>

C20_OversizedSentenceAlone ==
    /\ cpc \in {"start", "loop"} => ENABLED (CT_Split \/ CT_Sentence \/ CT_Finish)
    /\ cpc = "done" =>
          \A i \in 1..Len(sentences) :
              Tokens(sentences[i]) > max_tokens
              => \E j \in 1..Len(groups) :
                    /\ groups[j] = <<i>>
                    /\ j <= Len(chunks)
                    /\ chunks[j] = MakeChunk(<<sentences[i]>>)

\* C20 witness: an oversized sentence between two non-empty sentences that fit
C20_Witness ==
    /\ cpc = "done"
    /\ Len(sentences) = 3
    /\ Tokens(sentences[2]) > max_tokens
    /\ Tokens(sentences[1]) \in 1..max_tokens
    /\ Tokens(sentences[3]) \in 1..max_tokens
    /\ Len(chunks) = 3

C21_WindowsCoverDuration ==
    (stage_kind = "transcribe" /\ audio_exists /\ stage_pc # "start") =>
        /\ Len(windows) = CeilDiv(duration.secs, chunk_size)
        /\ Len(sub_pc) = Len(windows)
        /\ \A k \in 1..Len(windows) :
              /\ windows[k][1] = (IF k = 1 THEN 0 ELSE windows[k - 1][2])
              /\ windows[k][2] = (IF k = Len(windows) THEN duration.secs
                                  ELSE windows[k][1] + chunk_size)
              /\ windows[k][2] - windows[k][1] \in 1..chunk_size
        /\ duration.secs = 0 => windows = <<>>

\* C22: the transcript transcribe returns is the texts of the chunks joined by
\* single spaces in chunk-index order, whatever the order in which the
\* sub-calls completed.
C22_MergedInChunkOrder ==
    (stage_kind = "transcribe" /\ stage_result.kind = "merged") =>
        merged_text = Join([i \in 1..Len(sub_pc) |-> <<ToString(i)>>], <<" ">>)

\* C22 witness: a transcript was merged from three chunks whose sub-calls
\* completed in the order 3, 1, 2
C22_Witness ==
    /\ stage_kind = "transcribe"
    /\ stage_result.kind = "merged"
    /\ completed = <<3, 1, 2>>
    /\ merged_text = <<"1", " ", "2", " ", "3">>

\* C28: a stage call that has returned has persisted exactly one metrics
\* record, finalized, whose success flag tells whether a result was returned.
C28_StagePersistsFinalizedRecord ==
    stage_pc = "done" =>
        /\ Len(stage_saved) = 1
        /\ stage_saved[1].finalized
        /\ stage_saved[1].success <=> (stage_result.kind = "merged")

(***************************************************************************)
(* Properties of the merges                                                *)
(***************************************************************************)
\* C23: a merge called on zero chunks fails, be it _combine_chunks or
\* _combine_analyses: it ends by raising, never by returning a merged value.
C23_EmptyMergeFails ==
    (merge_pc = "done" /\ merge_in = <<>>) => merge_out.kind = "raised"

\* c1.f ++ ... ++ cn.f for the analyses i..n of the argument
RECURSIVE ConcatField(_, _)
ConcatField(f, i) ==
    IF i > Len(merge_in) THEN <<>>
    ELSE merge_in[i][f] \o ConcatField(f, i + 1)

\* C24: the record _combine_analyses returns has the scalar fields of the first
\* chunk's record, and each list field is the concatenation of that field over
\* the chunks, in chunk order and in the order within each chunk.
C24_MergePreservesOrder ==
    (merge_fn = "combine_analyses" /\ merge_out.kind = "returned") =>
        /\ DOMAIN merge_out.val = Fields
        /\ \A f \in Range(ScalarFields) : merge_out.val[f] = merge_in[1][f]
        /\ \A f \in Range(ListFields) : merge_out.val[f] = ConcatField(f, 1)

\* C24 witness: two records were merged, the first with two entries per list
\* field and the second with one, and the merged resume has the three entries
C24_Witness ==
    /\ merge_fn = "combine_analyses"
    /\ merge_out.kind = "returned"
    /\ Len(merge_in) = 2
    /\ Len(merge_in[1]["resume"]) = 2
    /\ Len(merge_in[2]["resume"]) = 1
    /\ merge_out.val["resume"] =
          <<<<"resume", 1, 1>>, <<"resume", 1, 2>>, <<"resume", 2, 1>>>>
    /\ merge_out.val["structure"] = <<"structure", 1, 0>>

\* C25: _combine_analyses called on records of which one, the first or a later
\* one, lacks an expected field, scalar or list, fails: it returns no merged
\* record.
C25_IncompleteRecordFails ==
    (merge_fn = "combine_analyses" /\ merge_pc = "done"
        /\ \E i \in 1..Len(merge_in) : DOMAIN merge_in[i] # Fields)
    => merge_out.kind = "raised"

(***************************************************************************)
(* Properties of the metrics records                                       *)
(***************************************************************************)
\* C26: every save writes a file of its own: after any interleaving of saves
\* the metrics directory holds as many files as save_metrics was called, none
\* having been overwritten.
C26_OneFilePerSave ==
    Cardinality(DOMAIN metrics_dir) = save_calls

Selected == Glob(metrics_dir, summary_filter)

\* C29: the summary reads every selected file, and a file whose reading failed
\* and was skipped counts in none of the returned fields: the count is the
\* number of the files not skipped, and the successes and API calls are those
\* of the files not skipped.
C29_SkippedCountsNowhere ==
    scan_pc = "done" =>
        /\ skipped \subseteq Selected
        /\ summary.total_operations = Cardinality(Selected \ skipped)
        /\ summary.success_rate.num =
              Cardinality({f \in Selected \ skipped : metrics_dir[f].data.success})

\* C30: over N > 0 well-formed records of which S are successes the summary
\* returns the count N and the success rate S / N exactly; over no record it
\* returns the count 0 and the rate 0.
C30_CountAndExactRate ==
    (scan_pc = "done" /\ \A f \in Selected : metrics_dir[f] \in WellFormed(f)) =>
        LET N == Cardinality(Selected)
            S == Cardinality({f \in Selected : metrics_dir[f].data.success})
        IN  /\ summary.total_operations = N
            /\ summary.success_rate.den > 0
            /\ summary.success_rate.num * (IF N > 0 THEN N ELSE 1)
                  = (IF N > 0 THEN S ELSE 0) * summary.success_rate.den

\* C30 witness: three well-formed records, two of them successes, were
\* summarized as count 3 and rate 2 / 3
C30_Witness ==
    /\ scan_pc = "done"
    /\ Cardinality(Selected) = 3
    /\ \A f \in Selected : metrics_dir[f] \in WellFormed(f)
    /\ Cardinality({f \in Selected : metrics_dir[f].data.success}) = 2
    /\ summary.total_operations = 3
    /\ summary.success_rate = Div(2, 3)

\* the files that hold a record of the operation the filter names
OfOperation == {f \in DOMAIN metrics_dir : Operation(f) = summary_filter}

\* C31: a summary asked for with an operation name reads and counts exactly the
\* records of that operation: no file of another operation is read, and over
\* well-formed records the count is the number of records of that operation.
C31_FilterByExactName ==
    summary_filter # <<>> =>
        /\ scan_pc = "loop" => metrics_files \subseteq OfOperation
        /\ (scan_pc = "done" /\ \A f \in DOMAIN metrics_dir : metrics_dir[f] \in WellFormed(f))
              => summary.total_operations = Cardinality(OfOperation)

(***************************************************************************)
(* Properties of the purge                                                 *)
(***************************************************************************)
\* C32: a purge leaves every record that is not older than `days` days present
\* and unchanged at every moment; when it returns, every older record is
\* deleted except those whose deletion raised, whatever was raised for other
\* records; and no file is created.
C32_PurgeDeletesExactlyOld ==
    /\ DOMAIN metrics_dir \subseteq DOMAIN dir_before
    /\ \A f \in DOMAIN dir_before :
          mtimes[f] >= Now - days * DaySeconds =>
              f \in DOMAIN metrics_dir /\ metrics_dir[f] = dir_before[f]
    /\ \A f \in DOMAIN metrics_dir : metrics_dir[f] = dir_before[f]
    /\ purge_pc = "done" =>
          \A f \in DOMAIN dir_before :
              (mtimes[f] < Now - days * DaySeconds /\ f \notin purge_raised)
                  => f \notin DOMAIN metrics_dir

\* C32 witness: of three records, the one exactly `days` days old was kept, an
\* older one whose deletion raised was kept, and another older one was
\* deleted
C32_Witness ==
    /\ purge_pc = "done"
    /\ days > 0
    /\ \E f, g, h \in DOMAIN dir_before :
          /\ mtimes[f] = cutoff_time /\ f \in DOMAIN metrics_dir
          /\ mtimes[g] < cutoff_time /\ g \in purge_raised /\ g \in DOMAIN metrics_dir
          /\ mtimes[h] < cutoff_time /\ h \notin DOMAIN metrics_dir

(***************************************************************************)
(* Properties of the audio extraction                                      *)
(***************************************************************************)
\* C33: extract_audio makes no download, conversion or probe call for a
\* rejected input, and returns no audio path for it: an invalid URL yields the
\* error 'URL YouTube invalide', a video longer than the configured maximum
\* of 7200 seconds an error saying that it exceeds the maximum duration.
C33_RejectedInputNeverDownloaded ==
    /\ ~url_valid =>
          /\ ea_calls = <<>>
          /\ ea_pc = "done" => ea_result = EA_Error("URL YouTube invalide")
    /\ (url_valid /\ video_duration # <<>> /\ video_duration[1] > CONFIG_MAX_AUDIO_DURATION) =>
          /\ ea_calls = <<>>
          /\ ea_pc = "done" => ea_result = EA_Error("La video depasse la duree maximale")

(***************************************************************************)
(* Properties of the consolidation                                         *)
(***************************************************************************)
\* the consolidation call was made and did not produce a result
ConsolidationFailed ==
    /\ consolidation_calls # <<>>
    /\ \/ pc[Consolidation] = "raised"
       \/ pc[Consolidation] = "returned" /\ outcome[Consolidation].kind = "None"

\* the results main collected are those the items produced
ResultsKept ==
    /\ Len(results) = Len(valid_urls)
    /\ \A i \in 1..Len(results) : results[i] = presult[<<"f", i>>]

\* C34: a failed consolidation is reported by analyze_consolidated as None and
\* never as an exception; the run goes on to its end with no consolidated
\* analysis; and the results of the items are those collected before.
C34_FailureOnlyInConsolidatedView ==
    /\ pc[Consolidation] # "raised"
    /\ ConsolidationFailed => ResultsKept
    /\ (ConsolidationFailed /\ mainpc = "done") => consolidated = "None"

\* the run-level part of C34, which the program keeps
ConsolidationFailureKeepsResults ==
    /\ ConsolidationFailed => ResultsKept
    /\ (ConsolidationFailed /\ mainpc = "done") => consolidated = "None"
    /\ (ConsolidationFailed /\ mainpc = "consolidating") => ENABLED GCA_Return

\* C35: consolidation is reported as failed only after max_retries + 1 = 4
\* attempts of analyze_consolidated.
C35_ConsolidationRetried ==
    (ConsolidationFailed /\ mainpc = "done") => invoked[Consolidation] = max_retries + 1

\* C37: a persisted metrics record says success exactly when its operation
\* returned a result: the record of generate_consolidated_analysis when a
\* consolidated analysis was returned, the record of an attempt of
\* analyze_consolidated when that attempt returned one.
C37_RecordedSuccessIsTruthful ==
    /\ \A k \in 1..Len(gca_saved) : gca_saved[k].success <=> (consolidated # "None")
    /\ \A k \in 1..Len(saved[Consolidation]) :
          saved[Consolidation][k].success <=> (outcome[Consolidation].kind = "value")

(***************************************************************************)
(* Properties of the wrapper for any max_retries                           *)
(***************************************************************************)
\* C36: whatever max_retries is, the wrapper returns only when an attempt of
\* the operation returned, and it returns that attempt's value; otherwise it
\* raises.
C36_ReturnsOnlyAttemptValue ==
    \A c \in tasks :
        pc[c] = "returned" =>
            /\ invoked[c] >= 1
            /\ outcome[c].kind = "value"
            /\ outcome[c].val = invoked[c]

(***************************************************************************)
(* Properties of the text split as a partition                             *)
(***************************************************************************)
\* the groups of sentence indices, one after another
RECURSIVE Flatten(_)
Flatten(gs) == IF gs = <<>> THEN <<>> ELSE gs[1] \o Flatten(Tail(gs))

\* C38: for every transcript, the empty one included, the split returns at
\* least one chunk; the chunk at 0-based index j - 1 of the returned list is
\* built from the j-th group of sentences, no group is empty, and the groups
\* one after another are the sentences 1..n of the transcript, each once and
\* in input order.
C38_ChunksPartitionSentences ==
    cpc = "done" =>
        /\ sentences = Split(transcript)
        /\ Len(chunks) >= 1
        /\ DOMAIN chunks = 1..Len(groups)
        /\ \A j \in 1..Len(groups) :
              /\ groups[j] # <<>>
              /\ chunks[j] = MakeChunk(GroupSentences(groups[j]))
        /\ Flatten(groups) = [i \in 1..Len(sentences) |-> i]

\* C38 witness: the empty transcript was split; its one empty sentence is the
\* only chunk
C38_Witness ==
    /\ cpc = "done"
    /\ transcript = <<>>
    /\ sentences = <<<<>>>>
    /\ groups = <<<<1>>>>
    /\ chunks = <<FullStop>>

(***************************************************************************)
(* Properties of analyze_individual's loop                                  *)
(***************************************************************************)
\* C39: the calls that ended are those of chunks 0 .. k-1 in order, each of at
\* most max_retries + 1 = 4 attempts; the call of the chunk the loop is at
\* began only after all earlier calls returned, and has made at most 4
\* attempts; a call that raised is the last one, and analyze_individual has
\* returned None with no attempt for a later chunk.
C39_ChunksInOrderBoundedAttempts ==
    ai_pc \in {"loop", "done"} =>
        /\ max_retries + 1 = 4
        /\ Len(chunk_calls) <= ai_chunks
        /\ Len(chunk_calls) \in {ai_idx, ai_idx + 1}
        /\ invoked[ChunkCall] <= max_retries + 1
        /\ \A k \in 1..Len(chunk_calls) :
              /\ chunk_calls[k].attempts \in 1..(max_retries + 1)
              /\ ~chunk_calls[k].ok =>
                    /\ k = Len(chunk_calls)
                    /\ ai_pc = "done"
                    /\ ai_result = "None"
        /\ (ai_pc = "loop" /\ invoked[ChunkCall] > 0) =>
              /\ Len(chunk_calls) = ai_idx
              /\ \A k \in 1..ai_idx : chunk_calls[k].ok
        /\ ai_result = "value" =>
              /\ Len(chunk_calls) = ai_chunks
              /\ \A k \in 1..ai_chunks : chunk_calls[k].ok

\* C39 witness: the first chunk's call returned, the second chunk's call made
\* four attempts and raised, and a third chunk was never attempted
C39_Witness ==
    /\ ai_pc = "done"
    /\ ai_chunks = 3
    /\ Len(chunk_calls) = 2
    /\ chunk_calls[1].ok
    /\ ~chunk_calls[2].ok
    /\ chunk_calls[2].attempts = 4
    /\ ai_result = "None"

====
